---- MODULE Spec2Model ----
(***************************************************************************)
(* Signal detection and decision-support pipeline of the situational       *)
(* awareness analytics layer: signal scorer, composite indices, velocity   *)
(* tracker, pattern detector, early warning engine, insight generator and  *)
(* the analytics engine that runs them in sequence.                        *)
(*                                                                         *)
(* Numbers.  The program computes in binary floating point; the model      *)
(* computes the same expressions exactly, as integer numerators over a     *)
(* stated denominator:                                                     *)
(*   confidence_score   tenths of a percent (933 is 93.3)                  *)
(*   a score of the scorer   numerator over ScoreDen                       *)
(*   an index score, a risk score   tenths (700 is 70.0)                   *)
(*   a velocity         hundredths (133 is 1.33)                           *)
(* round(x, n) is modelled on the exact value, ties to even; where the     *)
(* exact value is a tie the program's float may fall on either side, and   *)
(* the overall risk score, a sum of float products, takes both roundings.  *)
(* Time is in hours.                                                       *)
(* math.log10 is cut to thousandths.                                       *)
(***************************************************************************)
EXTENDS Integers, Sequences, FiniteSets, TLC

VARIABLES
  scorer_signals,   \* SignalScorer: the caller's list of signals
  last_call,        \* SignalScorer: the most recent call and what it returned
  memo,             \* SignalScorer: an earlier score_signal call, remembered
  index_signals,    \* CompositeIndexCalculator: the signal list last passed in
  indices,          \* ... what calculate_all_indices returned for it
  overall,          \* ... what get_overall_business_risk_score returned for it
  prev_indices,     \* ... the indices of the list before the last append
  appended,         \* ... the signal the caller appended last
  hourly_data,      \* VelocityTracker: rows of the hourly query
  velocities,       \* ... what calculate_topic_velocity returned
  topic_data,       \* PatternDetector: rows of the (topic, urgency) count query
  spikes,           \* ... the last detect_topic_spikes call and its result
  prev_spikes,      \* ... the detect_topic_spikes call before that
  between,          \* ... the other detectors that ran since, and their results
  location_data,    \* ... rows of the (location, urgency) hotspot query
  sentiment_data,   \* ... rows of the (topic, sentiment) count query
  clock,            \* ... what datetime.now() returns next, and how it moves
  warn_signals,     \* EarlyWarningSystem: the signals last passed in
  warn_velocities,  \* ... the velocities last passed in
  warnings,         \* ... what generate_warnings returned
  pipeline,         \* AnalyticsEngine: each run's position and results so far
  stored,           \* ... the rows committed to the signals and insights tables
  insight_signals,  \* InsightGenerator: the signals last passed in
  generated_insights \* ... what generate_insights returned

vars == <<scorer_signals, last_call, memo, index_signals, indices, overall, prev_indices,
          appended, hourly_data, velocities, topic_data, spikes, prev_spikes,
          between, location_data, sentiment_data, clock, warn_signals,
          warn_velocities, warnings, pipeline, stored, insight_signals,
          generated_insights>>

scorer_vars == <<scorer_signals, last_call, memo>>
index_vars == <<index_signals, indices, overall, prev_indices, appended>>
velocity_vars == <<hourly_data, velocities>>
detector_vars ==
  <<topic_data, spikes, prev_spikes, between, location_data, sentiment_data, clock>>
warning_vars == <<warn_signals, warn_velocities, warnings>>
pipeline_vars == <<pipeline, stored>>
insight_vars == <<insight_signals, generated_insights>>

\* Nothing called yet / nothing returned yet.
NoCall == [op |-> "none"]

-----------------------------------------------------------------------------
(* Bounds of the model *)

\* longest list passed to rank_signals
MaxRank == 3
\* longest list passed to the index calculator
MaxIndexSignals == 2
\* most hourly buckets of one topic in the velocity query
MaxBuckets == 11
\* largest older-half / recent-half total of the topic's hourly counts
MaxHalfTotal == 25
\* largest count of one (topic, urgency) row
MaxCount == 10
\* longest list passed to generate_warnings
MaxWarnSignals == 3
\* longest list passed to generate_insights
MaxInsightSignals == 3

-----------------------------------------------------------------------------
(* Sequences and arithmetic *)

Min(a, b) == IF a <= b THEN a ELSE b

Max(a, b) == IF a >= b THEN a ELSE b

Reverse(s) == [i \in 1..Len(s) |-> s[Len(s) + 1 - i]]

RECURSIVE SumSeq(_)
SumSeq(s) == IF s = <<>> THEN 0 ELSE Head(s) + SumSeq(Tail(s))

RECURSIVE SeqsUpTo(_, _)
\* every sequence over S of length 0..n
SeqsUpTo(S, n) ==
  IF n = 0 THEN {<<>>}
  ELSE LET shorter == SeqsUpTo(S, n - 1)
       IN  shorter \cup {Append(q, x) : q \in {r \in shorter : Len(r) = n - 1}, x \in S}

\* floor(n / d) for d > 0 and any integer n
FloorDiv(n, d) == IF n >= 0 THEN n \div d ELSE -((-n + d - 1) \div d)

\* Python round(): the integer nearest n/d (d > 0), ties to the even one
RoundHalfEven(n, d) ==
  LET q == FloorDiv(n, d)
      r == n - q * d
  IN  IF 2 * r < d THEN q
      ELSE IF 2 * r > d THEN q + 1
      ELSE IF q % 2 = 0 THEN q ELSE q + 1

-----------------------------------------------------------------------------
(* Strings: str.lower() and the substring test `kw in topic` *)

Chars ==
  "fuel prices" :> <<"f","u","e","l"," ","p","r","i","c","e","s">> @@
  "rupee exchange rate" :> <<"r","u","p","e","e"," ","e","x","c","h","a","n","g","e"," ","r","a","t","e">> @@
  "inflation" :> <<"i","n","f","l","a","t","i","o","n">> @@
  "power cut" :> <<"p","o","w","e","r"," ","c","u","t">> @@
  "road conditions" :> <<"r","o","a","d"," ","c","o","n","d","i","t","i","o","n","s">> @@
  "public transport" :> <<"p","u","b","l","i","c"," ","t","r","a","n","s","p","o","r","t">> @@
  "water shortage" :> <<"w","a","t","e","r"," ","s","h","o","r","t","a","g","e">> @@
  "government policy" :> <<"g","o","v","e","r","n","m","e","n","t"," ","p","o","l","i","c","y">> @@
  "protest" :> <<"p","r","o","t","e","s","t">> @@
  "tourism boost" :> <<"t","o","u","r","i","s","m"," ","b","o","o","s","t">> @@
  "tech startup" :> <<"t","e","c","h"," ","s","t","a","r","t","u","p">> @@
  "cultural festival" :> <<"c","u","l","t","u","r","a","l"," ","f","e","s","t","i","v","a","l">> @@
  "monsoon rain" :> <<"m","o","n","s","o","o","n"," ","r","a","i","n">> @@
  "flood warning" :> <<"f","l","o","o","d"," ","w","a","r","n","i","n","g">> @@
  "Activity in Colombo" :> <<"A","c","t","i","v","i","t","y"," ","i","n"," ","C","o","l","o","m","b","o">> @@
  "Activity in Kandy" :> <<"A","c","t","i","v","i","t","y"," ","i","n"," ","K","a","n","d","y">> @@
  "economy" :> <<"e","c","o","n","o","m","y">> @@
  "salary" :> <<"s","a","l","a","r","y">> @@
  "cost" :> <<"c","o","s","t">> @@
  "electricity" :> <<"e","l","e","c","t","r","i","c","i","t","y">> @@
  "transport" :> <<"t","r","a","n","s","p","o","r","t">> @@
  "drought" :> <<"d","r","o","u","g","h","t">> @@
  "weather" :> <<"w","e","a","t","h","e","r">> @@
  "rainfall" :> <<"r","a","i","n","f","a","l","l">> @@
  "cyclone" :> <<"c","y","c","l","o","n","e">> @@
  "election" :> <<"e","l","e","c","t","i","o","n">> @@
  "parliament" :> <<"p","a","r","l","i","a","m","e","n","t">> @@
  "demonstration" :> <<"d","e","m","o","n","s","t","r","a","t","i","o","n">>

\* the topics the collectors tag posts with, and the topics of hotspot signals
SL_TOPICS ==
  {"fuel prices", "rupee exchange rate", "inflation", "power cut",
   "road conditions", "public transport", "water shortage",
   "government policy", "protest", "tourism boost", "tech startup",
   "cultural festival", "monsoon rain", "flood warning"}

HotspotTopics == {"Activity in Colombo", "Activity in Kandy"}

AllTopics == SL_TOPICS \cup HotspotTopics

LowerChar(c) ==
  CASE c = "A" -> "a"
    [] c = "C" -> "c"
    [] c = "E" -> "e"
    [] c = "I" -> "i"
    [] c = "K" -> "k"
    [] c = "W" -> "w"
    [] OTHER -> c

\* str.lower(), on the characters
Lower(cs) == [i \in 1..Len(cs) |-> LowerChar(cs[i])]

\* `a in b` of two strings, on their characters
IsSubstring(a, b) ==
  \E start \in 0..(Len(b) - Len(a)) :
    \A i \in 1..Len(a) : b[start + i] = a[i]

\* kw in topic.lower(), for every keyword and topic of the model
InLower == [kw \in DOMAIN Chars, t \in AllTopics |-> IsSubstring(Chars[kw], Lower(Chars[t]))]

\* any(t in s.topic.lower() for t in keywords)
MatchesAny(topic, keywords) == \E i \in 1..Len(keywords) : InLower[keywords[i], topic]

-----------------------------------------------------------------------------
(* Signal *)

Signal(kind, topic, urgency, confidence, count, meta) ==
  [signal_type |-> kind, topic |-> topic, urgency |-> urgency,
   confidence_score |-> confidence, source_count |-> count, metadata |-> meta]

NoMetadata == <<>>

-----------------------------------------------------------------------------
(* SignalScorer *)

URGENCY_WEIGHTS == [critical |-> 100, high |-> 75, medium |-> 50, low |-> 25]

\* tenths
TYPE_WEIGHTS ==
  [spike |-> 12, trend |-> 9, sentiment_shift |-> 11, geographic_hotspot |-> 10, anomaly |-> 13]

\* dict.get(key, default)
Get(dict, key, default) == IF key \in DOMAIN dict THEN dict[key] ELSE default

\* floor(1000 * log10(d)) for one digit d
Log10Digit == <<0, 301, 477, 602, 698, 778, 845, 903, 954>>

RECURSIVE Log10Milli(_)
\* math.log10(n) in thousandths, n >= 1; exact to the thousandth for n = d * 10^k
Log10Milli(n) == IF n < 10 THEN Log10Digit[n] ELSE 1000 + Log10Milli(n \div 10)

\* a score s is carried as the integer s * ScoreDen
ScoreDen == 800000

\* base_score * type_mult * confidence_factor * volume_factor, unclamped
final_score(signal) ==
  LET base_score == Get(URGENCY_WEIGHTS, signal.urgency, 25)
      type_mult == Get(TYPE_WEIGHTS, signal.signal_type, 10)
      \* 0.5 + confidence / 200, in 1/2000
      confidence_factor == 1000 + signal.confidence_score
      \* min(1.5, 1 + log10(max(1, source_count)) / 10), in thousandths
      volume_factor == Min(1500, 1000 + Log10Milli(Max(1, signal.source_count)) \div 10)
  IN  (base_score \div 25) * type_mult * confidence_factor * volume_factor

score_signal_unclamped(signal) == final_score(signal)

score_signal(signal) == Min(100 * ScoreDen, Max(0, final_score(signal)))

\* [(signal, score) for signal in signals]; idx stands for the object's identity
ScoredList(signals) ==
  [i \in 1..Len(signals) |-> [signal |-> signals[i], score |-> score_signal(signals[i]), idx |-> i]]

RECURSIVE InsertDesc(_, _)
\* put e behind every element whose score is >= its own
InsertDesc(sorted, e) ==
  IF sorted = <<>> THEN <<e>>
  ELSE IF Head(sorted).score >= e.score THEN <<Head(sorted)>> \o InsertDesc(Tail(sorted), e)
  ELSE <<e>> \o sorted

RECURSIVE SortedDesc(_)
\* sorted(seq, key=score, reverse=True): descending, equal keys in input order
SortedDesc(seq) ==
  IF seq = <<>> THEN <<>>
  ELSE InsertDesc(SortedDesc(SubSeq(seq, 1, Len(seq) - 1)), seq[Len(seq)])

RECURSIVE InsertAsc(_, _)
InsertAsc(sorted, e) ==
  IF sorted = <<>> THEN <<e>>
  ELSE IF Head(sorted).score <= e.score THEN <<Head(sorted)>> \o InsertAsc(Tail(sorted), e)
  ELSE <<e>> \o sorted

RECURSIVE SortedAsc(_)
SortedAsc(seq) ==
  IF seq = <<>> THEN <<>>
  ELSE InsertAsc(SortedAsc(SubSeq(seq, 1, Len(seq) - 1)), seq[Len(seq)])

\* sorted(scored, key=score)[::-1]: descending, equal keys in reverse input order
rank_signals_ascending_reversed(signals) == Reverse(SortedAsc(ScoredList(signals)))

rank_signals(signals) == SortedDesc(ScoredList(signals))

\* [s for s in signals if score_signal(s) >= threshold]; threshold in whole points
filter_by_threshold(signals, threshold) ==
  SelectSeq(signals, LAMBDA s : score_signal(s) >= threshold * ScoreDen)

\* [signal for signal, score in ranked[:top_n]]
get_priority_signals(signals, top_n) ==
  LET ranked == rank_signals(signals)
  IN  [i \in 1..Min(top_n, Len(ranked)) |-> ranked[i].signal]

\* the signals handed to score_signal on their own
ScoreUrgencies == {"critical", "high", "medium", "low", "urgent"}

ScoreKinds == {"spike", "trend", "anomaly", "other"}

ScoreConfidences == {0, 1000}

ScoreCounts == {-5, 1, 20, 20000000}

ScoreInputs ==
  {Signal(k, "fuel prices", u, c, n, NoMetadata) :
     k \in ScoreKinds, u \in ScoreUrgencies, c \in ScoreConfidences, n \in ScoreCounts}

\* the signals of the lists handed to rank_signals: equal and unequal scores,
\* and two signals that differ in their topic alone
RankInputs ==
  {Signal("spike", "fuel prices", "high", 500, 20, NoMetadata),
   Signal("spike", "power cut", "high", 500, 20, NoMetadata),
   Signal("trend", "inflation", "medium", 750, 1, NoMetadata),
   Signal("anomaly", "protest", "low", 500, 300, NoMetadata),
   Signal("spike", "flood warning", "critical", 1000, 20, NoMetadata)}

ScorerLists == SeqsUpTo(RankInputs, MaxRank) \cup {<<s>> : s \in ScoreInputs}

\* the remembered call, once another scorer method has run after it
MemoAfterOther == IF memo.op = "score_signal" THEN [memo EXCEPT !.others_since = TRUE] ELSE memo

\* score_signal(signal), on one signal of the caller's list
ScoreSignal ==
  \E i \in 1..Len(scorer_signals) :
    /\ last_call' = [op |-> "score_signal", signal |-> scorer_signals[i],
                     score |-> score_signal(scorer_signals[i])]
    /\ UNCHANGED <<scorer_signals, memo>>
    /\ UNCHANGED <<index_vars, velocity_vars, detector_vars, warning_vars, pipeline_vars, insight_vars>>

\* the caller keeps the last score_signal result to compare a later one with
Remember ==
  /\ last_call.op = "score_signal"
  /\ memo.op = "none"
  /\ memo' = [op |-> "score_signal", signal |-> last_call.signal,
               score |-> last_call.score, others_since |-> FALSE]
  /\ UNCHANGED <<scorer_signals, last_call>>
  /\ UNCHANGED <<index_vars, velocity_vars, detector_vars, warning_vars, pipeline_vars, insight_vars>>

\* rank_signals(signals)
RankSignals ==
  /\ last_call' = [op |-> "rank_signals", ranked |-> rank_signals(scorer_signals)]
  /\ memo' = MemoAfterOther
  /\ UNCHANGED scorer_signals
  /\ UNCHANGED <<index_vars, velocity_vars, detector_vars, warning_vars, pipeline_vars, insight_vars>>

\* rank_signals(reversed(signals)), after rank_signals(signals)
RankReversed ==
  /\ last_call.op = "rank_signals"
  /\ last_call' = [op |-> "rank_both", ranked |-> last_call.ranked,
                   ranked_reverse |-> rank_signals(Reverse(scorer_signals))]
  /\ memo' = MemoAfterOther
  /\ UNCHANGED scorer_signals
  /\ UNCHANGED <<index_vars, velocity_vars, detector_vars, warning_vars, pipeline_vars, insight_vars>>

\* filter_by_threshold(signals, 60) and get_priority_signals(signals, 2)
FilterAndTop ==
  /\ last_call' = [op |-> "filter_top",
                   kept |-> filter_by_threshold(scorer_signals, 60),
                   top |-> get_priority_signals(scorer_signals, 2)]
  /\ memo' = MemoAfterOther
  /\ UNCHANGED scorer_signals
  /\ UNCHANGED <<index_vars, velocity_vars, detector_vars, warning_vars, pipeline_vars, insight_vars>>

NextScorer == ScoreSignal \/ Remember \/ RankSignals \/ RankReversed \/ FilterAndTop

-----------------------------------------------------------------------------
(* CompositeIndexCalculator *)

ECONOMIC_TOPICS ==
  <<"fuel prices", "inflation", "rupee exchange rate", "economy", "salary", "cost">>

INFRASTRUCTURE_TOPICS ==
  <<"power cut", "road conditions", "public transport", "water shortage",
    "electricity", "transport">>

WEATHER_TOPICS ==
  <<"monsoon rain", "flood warning", "drought", "weather", "rainfall", "cyclone">>

POLITICAL_TOPICS ==
  <<"protest", "government policy", "election", "parliament", "demonstration">>

URGENCY_SCORES_critical_as_low == [critical |-> 25, high |-> 75, medium |-> 50, low |-> 25]

URGENCY_SCORES == [critical |-> 100, high |-> 75, medium |-> 50, low |-> 25]

\* [s for s in signals if any(topic in s.topic.lower() for topic in keywords)]
CategorySignals(signals, keywords) ==
  SelectSeq(signals, LAMBDA s : MatchesAny(s.topic, keywords))

\* URGENCY_SCORES.get(s.urgency, 0) * (s.confidence_score / 100), in thousandths
WeightedUrgency(s) == Get(URGENCY_SCORES, s.urgency, 0) * s.confidence_score

\* min(1.5, 1 + source_count / 100), in hundredths
OperationalBoost(s) == Min(150, 100 + s.source_count)

\* 1 + source_count / 50, in fiftieths
SocialBoost(s) == 50 + s.source_count

\* the level of the index num / den
LevelOf(num, den) ==
  IF num >= 70 * den THEN "CRITICAL"
  ELSE IF num >= 50 * den THEN "HIGH"
  ELSE IF num >= 30 * den THEN "MEDIUM"
  ELSE "LOW"

\* the dict a category method returns when no signal is in the category
EmptyIndex == [score |-> 0, level |-> "LOW", signal_count |-> 0]

\* ... and for the index num / den of the category's signals
IndexResult(num, den, category_signals) ==
  [score |-> RoundHalfEven(10 * num, den),
   level |-> LevelOf(num, den),
   signal_count |-> Len(category_signals),
   top_concerns |-> {category_signals[i].topic : i \in 1..Min(3, Len(category_signals))}]

calculate_economic_stress_index(signals) ==
  LET economic_signals == CategorySignals(signals, ECONOMIC_TOPICS)
      total_score == SumSeq([i \in 1..Len(economic_signals) |->
                               WeightedUrgency(economic_signals[i])])
      \* len * 100, times the 1000 of total_score's unit, over the final 100
      max_possible == Len(economic_signals) * 1000
  IN  IF economic_signals = <<>> THEN EmptyIndex
      ELSE IndexResult(total_score, max_possible, economic_signals)

calculate_operational_risk_index(signals) ==
  LET operational_signals == CategorySignals(signals, INFRASTRUCTURE_TOPICS)
      total_score == SumSeq([i \in 1..Len(operational_signals) |->
                               WeightedUrgency(operational_signals[i])
                                 * OperationalBoost(operational_signals[i])])
      \* len * 100 * 1.5, times 1000 * 100, over 100
      max_possible == Len(operational_signals) * 150000
  IN  IF operational_signals = <<>> THEN EmptyIndex
      ELSE IndexResult(total_score, max_possible, operational_signals)

calculate_weather_impact_index(signals) ==
  LET weather_signals == CategorySignals(signals, WEATHER_TOPICS)
      total_score == SumSeq([i \in 1..Len(weather_signals) |->
                               WeightedUrgency(weather_signals[i])])
      max_possible == Len(weather_signals) * 1000
  IN  IF weather_signals = <<>> THEN EmptyIndex
      ELSE IndexResult(total_score, max_possible, weather_signals)

calculate_social_unrest_index(signals) ==
  LET political_signals == CategorySignals(signals, POLITICAL_TOPICS)
      total_score == SumSeq([i \in 1..Len(political_signals) |->
                               WeightedUrgency(political_signals[i])
                                 * SocialBoost(political_signals[i])])
      \* len * 100 * 2, times 1000 * 50, over 100
      max_possible == Len(political_signals) * 100000
  IN  IF political_signals = <<>> THEN EmptyIndex
      ELSE IndexResult(total_score, max_possible, political_signals)

calculate_all_indices(signals) ==
  [economic_stress |-> calculate_economic_stress_index(signals),
   operational_risk |-> calculate_operational_risk_index(signals),
   weather_impact |-> calculate_weather_impact_index(signals),
   social_unrest |-> calculate_social_unrest_index(signals)]

Categories == {"economic_stress", "operational_risk", "weather_impact", "social_unrest"}

\* the keyword list that selects a category's signals
CategoryTopics ==
  [economic_stress |-> ECONOMIC_TOPICS, operational_risk |-> INFRASTRUCTURE_TOPICS,
   weather_impact |-> WEATHER_TOPICS, social_unrest |-> POLITICAL_TOPICS]

\* hundredths
\* four equal weights
RiskWeights_all_equal ==
  [economic_stress |-> 25, operational_risk |-> 25, weather_impact |-> 25, social_unrest |-> 25]

\* weights, in hundredths
RiskWeights ==
  [economic_stress |-> 35, operational_risk |-> 35, weather_impact |-> 15, social_unrest |-> 15]

\* sum(all_indices[key]['score'] * weights[key]), in thousandths
OverallScore(all_indices) ==
  all_indices.economic_stress.score * RiskWeights.economic_stress
    + all_indices.operational_risk.score * RiskWeights.operational_risk
    + all_indices.weather_impact.score * RiskWeights.weather_impact
    + all_indices.social_unrest.score * RiskWeights.social_unrest

\* round(n / d): where n / d is exactly halfway the float sum of the float
\* products (0.35 and 0.15 are not binary fractions) may lie on either side
RoundFloatSum(n, d) ==
  IF 2 * (n - FloorDiv(n, d) * d) = d
    THEN {FloorDiv(n, d), FloorDiv(n, d) + 1}
    ELSE {RoundHalfEven(n, d)}

\* the results get_overall_business_risk_score can return for the list
get_overall_business_risk_score(signals) ==
  LET all_indices == calculate_all_indices(signals)
      overall_score == OverallScore(all_indices)
  IN  {[overall_score |-> rounded,
        level |-> LevelOf(overall_score, 1000),
        component_scores |-> [key \in Categories |-> all_indices[key].score]] :
         rounded \in RoundFloatSum(overall_score, 100)}

\* the signals of the lists handed to the calculator: one topic of each
\* category and one of none; source_count varies where it enters the index
IndexTopics == {"inflation", "power cut", "monsoon rain", "protest", "Activity in Colombo"}

IndexUrgencyConfidence == {<<"critical", 1000>>, <<"high", 933>>, <<"medium", 500>>}

IndexCounts == {0, 100}

\* an economic signal of index 80 and an operational signal of index 60
ScenarioIndexInputs ==
  {Signal("spike", "inflation", "critical", 800, 0, NoMetadata),
   Signal("spike", "power cut", "critical", 900, 0, NoMetadata)}

IndexInputs ==
  {s \in {Signal("spike", t, uc[1], uc[2], n, NoMetadata) :
            t \in IndexTopics, uc \in IndexUrgencyConfidence, n \in IndexCounts} :
     s.source_count = 0 \/ s.topic \in {"power cut", "protest"}}
    \cup ScenarioIndexInputs

\* calculate_all_indices(signals)
CalculateAllIndices ==
  /\ indices = NoCall
  /\ indices' = calculate_all_indices(index_signals)
  /\ UNCHANGED <<index_signals, overall, prev_indices, appended>>
  /\ UNCHANGED <<scorer_vars, velocity_vars, detector_vars, warning_vars, pipeline_vars, insight_vars>>

\* get_overall_business_risk_score(signals)
GetOverallBusinessRiskScore ==
  /\ overall = NoCall
  /\ overall' \in get_overall_business_risk_score(index_signals)
  /\ UNCHANGED <<index_signals, indices, prev_indices, appended>>
  /\ UNCHANGED <<scorer_vars, velocity_vars, detector_vars, warning_vars, pipeline_vars, insight_vars>>

\* the caller appends one more signal to the list and calculates again
AppendAndRecalculate ==
  \E s \in IndexInputs :
    /\ indices # NoCall
    /\ appended = NoCall
    /\ Len(index_signals) < MaxIndexSignals
    /\ appended' = s
    /\ prev_indices' = indices
    /\ index_signals' = Append(index_signals, s)
    /\ indices' = calculate_all_indices(Append(index_signals, s))
    /\ overall' = NoCall
    /\ UNCHANGED <<scorer_vars, velocity_vars, detector_vars, warning_vars, pipeline_vars, insight_vars>>

NextIndex == CalculateAllIndices \/ GetOverallBusinessRiskScore \/ AppendAndRecalculate

-----------------------------------------------------------------------------
(* VelocityTracker (src/analytics/detectors/velocity_tracker.py).          *)
(* hourly_data is the result of the hourly query: rows (topic, hour,       *)
(* count) ordered by topic and hour, one row per non-empty hour, so every  *)
(* count is at least 1.  The velocity of a topic is kept exactly as the    *)
(* fraction VelocityNum / VelocityDen; the emitted velocity is in          *)
(* hundredths and the emitted averages are in tenths.                      *)

RECURSIVE FirstOccurrences(_)
\* the distinct elements of s in the order of their first occurrence
\* (the key order of a dict filled while iterating over s)
FirstOccurrences(s) ==
  IF s = <<>> THEN <<>>
  ELSE LET before == FirstOccurrences(SubSeq(s, 1, Len(s) - 1))
           last == s[Len(s)]
       IN  IF \E i \in 1..Len(before) : before[i] = last THEN before
           ELSE Append(before, last)

\* topics[topic]['hourly_counts'] after the grouping loop
hourly_counts(data, topic) ==
  LET rows == SelectSeq(data, LAMBDA row : row.topic = topic)
  IN  [i \in 1..Len(rows) |-> rows[i].count]

\* the keys of the topics dict, in insertion order
GroupedTopics(data) == FirstOccurrences([i \in 1..Len(data) |-> data[i].topic])

\* the split rounded up
split_point_rounded_up(counts) == (Len(counts) + 1) \div 2

split_point(counts) == Len(counts) \div 2

older_counts(counts) == SubSeq(counts, 1, split_point(counts))

recent_counts(counts) == SubSeq(counts, split_point(counts) + 1, Len(counts))

\* velocity = (recent_avg - older_avg) / (time_span / 2)
\*          = VelocityNum / VelocityDen, with VelocityDen > 0
VelocityNum(counts) ==
  2 * (SumSeq(recent_counts(counts)) * Len(older_counts(counts))
       - SumSeq(older_counts(counts)) * Len(recent_counts(counts)))

VelocityDen(counts) ==
  Len(older_counts(counts)) * Len(recent_counts(counts)) * Len(counts)

\* the chain with every boundary given to the band above it
TrendOf_boundary_above(num, den) ==
  IF num >= 2 * den THEN "ACCELERATING"
  ELSE IF 2 * num >= den THEN "GROWING"
  ELSE IF 2 * num >= -den THEN "STABLE"
  ELSE IF num >= -2 * den THEN "DECLINING"
  ELSE "FADING"

\* the if/elif chain on velocity = num / den (den > 0)
TrendOf(num, den) ==
  IF num > 2 * den THEN "ACCELERATING"
  ELSE IF 2 * num > den THEN "GROWING"
  ELSE IF 2 * num > -den THEN "STABLE"
  ELSE IF num > -2 * den THEN "DECLINING"
  ELSE "FADING"

TrendUrgency(trend) ==
  IF trend = "ACCELERATING" THEN "high"
  ELSE IF trend = "GROWING" THEN "medium"
  ELSE "low"

momentum(recent) ==
  IF Len(recent) >= 2 THEN recent[Len(recent)] - recent[Len(recent) - 1] ELSE 0

\* the entry velocities[topic]
VelocityRecord(topic, counts) ==
  LET older == older_counts(counts)
      recent == recent_counts(counts)
      trend == TrendOf(VelocityNum(counts), VelocityDen(counts))
  IN  [topic |-> topic,
       velocity |-> RoundHalfEven(100 * VelocityNum(counts), VelocityDen(counts)),
       trend |-> trend,
       urgency |-> TrendUrgency(trend),
       recent_avg |-> RoundHalfEven(10 * SumSeq(recent), Len(recent)),
       older_avg |-> RoundHalfEven(10 * SumSeq(older), Len(older)),
       momentum |-> momentum(recent),
       data_points |-> Len(counts),
       latest_count |-> counts[Len(counts)]]

\* a record for every topic with two buckets or more
HasVelocity_from_two_buckets(data, topic) ==
  LET counts == hourly_counts(data, topic)
  IN  Len(counts) >= 2 /\ older_counts(counts) # <<>> /\ recent_counts(counts) # <<>>

\* topics that get a velocity record: at least 3 buckets
HasVelocity(data, topic) ==
  LET counts == hourly_counts(data, topic)
  IN  Len(counts) >= 3 /\ older_counts(counts) # <<>> /\ recent_counts(counts) # <<>>

\* calculate_topic_velocity: the returned dict as the sequence of its
\* entries in insertion order (empty when the query returns no rows)
calculate_topic_velocity(data) ==
  LET topics == SelectSeq(GroupedTopics(data), LAMBDA t : HasVelocity(data, t))
  IN  [i \in 1..Len(topics) |-> VelocityRecord(topics[i], hourly_counts(data, topics[i]))]

\* the k counts nearest to each other that add up to total (k <= total)
FlatSeries(k, total) ==
  [i \in 1..k |-> total \div k + (IF i <= total % k THEN 1 ELSE 0)]

\* the hourly rows of one topic
HourlyRows(topic, counts) ==
  [i \in 1..Len(counts) |-> [topic |-> topic, hour |-> i, count |-> counts[i]]]

HalfTotals(k) == IF k = 0 THEN {0} ELSE k..MaxHalfTotal

\* a second topic in the same query result: absent, too short, or short
OtherSeries == {<<>>, <<3, 1>>, <<1, 2, 9>>}

\* six hourly buckets of `power cut` whose older half has mean 2 and whose
\* recent half has mean 6, alone or after a topic with two buckets
ScenarioHourlyInputs ==
  {HourlyRows("inflation", other) \o HourlyRows("power cut", older \o recent) :
     other \in {<<>>, <<3, 1>>},
     older \in {<<2, 2, 2>>, <<1, 2, 3>>, <<4, 1, 1>>},
     recent \in {<<6, 6, 6>>, <<3, 6, 9>>, <<10, 7, 1>>}}

\* query results: `fuel prices` with up to MaxBuckets hourly buckets, a
\* level older half and a level recent half, followed by `inflation`
HourlyInputs ==
  UNION {{HourlyRows("fuel prices",
                     FlatSeries(n \div 2, o) \o FlatSeries(n - n \div 2, r))
            \o HourlyRows("inflation", other) :
              o \in HalfTotals(n \div 2), r \in HalfTotals(n - n \div 2),
              other \in OtherSeries} :
         n \in 0..MaxBuckets}
    \cup ScenarioHourlyInputs

\* calculate_topic_velocity()
CalculateTopicVelocity ==
  /\ velocities = NoCall
  /\ velocities' = [op |-> "calculate_topic_velocity",
                     returned |-> calculate_topic_velocity(hourly_data)]
  /\ UNCHANGED <<hourly_data, scorer_vars, index_vars, detector_vars, warning_vars, pipeline_vars, insight_vars>>

NextVelocity == CalculateTopicVelocity

-----------------------------------------------------------------------------
(* PatternDetector (src/analytics/detectors/pattern_detector.py).          *)
(* topic_data, hourly_data, location_data and sentiment_data are the       *)
(* results of the four queries; the count of a group is at least 1.  The   *)
(* mean of the counts is kept as the fraction sum / rows; a multiplier is  *)
(* given in tenths (20 is 2.0).  stdev is computed and never used.         *)

CountsOf(rows) == [i \in 1..Len(rows) |-> rows[i].count]

\* a test that also fires when the count is exactly at the threshold
IsSpike_at_or_above(row, total, n, threshold_multiplier) ==
  row.count * n * 10 >= total * threshold_multiplier

\* a test against the mean alone, the multiplier left out
IsSpike_above_the_mean(row, total, n, threshold_multiplier) ==
  row.count * n > total

\* row['count'] > avg_count * threshold_multiplier, avg_count = total / n
IsSpike(row, total, n, threshold_multiplier) ==
  row.count * n * 10 > total * threshold_multiplier

\* _calculate_spike_urgency(count, avg, inherent_urgency), avg = total / n
calculate_spike_urgency(count, total, n, inherent_urgency) ==
  LET num == IF total > 0 THEN count * n ELSE 1
      den == IF total > 0 THEN total ELSE 1
  IN  IF num > 3 * den \/ inherent_urgency = "high" THEN "critical"
      ELSE IF 2 * num > 5 * den THEN "high"
      ELSE IF num > 2 * den THEN "medium"
      ELSE "low"

\* 70 + severity_multiplier * 5 without the cap of 95
SpikeConfidence_uncapped(count, total, n) ==
  RoundHalfEven(700 * total + 50 * count * n, total)

\* min(95, 70 + severity_multiplier * 5), to the nearest tenth
SpikeConfidence(count, total, n) ==
  RoundHalfEven(Min(950 * total, 700 * total + 50 * count * n), total)

\* the exception detect_topic_spikes ends with, "none" when it returns:
\* it returns before statistics.mean on no rows, calls statistics.stdev on
\* two counts or more only, and divides by avg_count for each spike row
detect_topic_spikes_raises(rows, threshold_multiplier) ==
  LET total == SumSeq(CountsOf(rows))
      n == Len(rows)
  IN  IF rows = <<>> THEN "none"
      ELSE IF \E i \in 1..n : IsSpike(rows[i], total, n, threshold_multiplier) /\ total = 0
        THEN "ZeroDivisionError"
      ELSE "none"

\* the Signal built for a spike row
SpikeSignal(row, total, n) ==
  Signal("spike", row.topic,
         calculate_spike_urgency(row.count, total, n, row.urgency),
         SpikeConfidence(row.count, total, n),
         row.count,
         [baseline_avg |-> <<total, n>>, actual_count |-> row.count,
          inherent_urgency |-> row.urgency])

\* the signals the loop over topic_data appends, in row order
SpikesOf(rows, threshold_multiplier) ==
  LET total == SumSeq(CountsOf(rows))
      n == Len(rows)
      hits == SelectSeq(rows, LAMBDA row : IsSpike(row, total, n, threshold_multiplier))
  IN  [i \in 1..Len(hits) |-> SpikeSignal(hits[i], total, n)]

\* a detector that keeps its list of signals from one call to the next
detect_topic_spikes_keeping_signals(rows, threshold_multiplier) ==
  (IF spikes = NoCall THEN <<>> ELSE spikes.returned) \o SpikesOf(rows, threshold_multiplier)

\* detect_topic_spikes(threshold_multiplier): signals = [] on entry
detect_topic_spikes(rows, threshold_multiplier) ==
  <<>> \o SpikesOf(rows, threshold_multiplier)

\* counts[-3:] and counts[:-3] (counts[0] alone when there are 3 buckets)
TrendRecent(counts) == SubSeq(counts, Len(counts) - 2, Len(counts))

TrendOlder(counts) ==
  IF Len(counts) > 3 THEN SubSeq(counts, 1, Len(counts) - 3) ELSE <<counts[1]>>

\* flagged at the 1.5 ratio already
IsTrending_from_equal_ratio(counts) ==
  /\ Len(counts) >= 3
  /\ 2 * SumSeq(TrendRecent(counts)) * Len(TrendOlder(counts))
       >= 9 * SumSeq(TrendOlder(counts))

\* recent_avg > older_avg * 1.5
IsTrending(counts) ==
  /\ Len(counts) >= 3
  /\ 2 * SumSeq(TrendRecent(counts)) * Len(TrendOlder(counts))
       > 9 * SumSeq(TrendOlder(counts))

\* the trend Signal of a topic; velocity = (recent_avg - older_avg) / len(counts)
TrendSignal(topic, counts) ==
  LET recent == TrendRecent(counts)
      older == TrendOlder(counts)
  IN  Signal("trend", topic, "medium", 750, SumSeq(counts),
             [velocity |-> <<SumSeq(recent) * Len(older) - 3 * SumSeq(older),
                             3 * Len(older) * Len(counts)>>,
              hourly_counts |-> counts])

\* detect_trending_topics(hours)
detect_trending_topics(data) ==
  LET topics == SelectSeq(GroupedTopics(data),
                          LAMBDA t : IsTrending(hourly_counts(data, t)))
  IN  [i \in 1..Len(topics) |-> TrendSignal(topics[i], hourly_counts(data, topics[i]))]

\* f"Activity in {row['location']}"
HotspotTopic(location) ==
  CASE location = "Colombo" -> "Activity in Colombo"
    [] location = "Kandy" -> "Activity in Kandy"

\* two signals per row of the query, as for rows grouped by topic as well
detect_geographic_hotspots_two_per_row(rows) ==
  [i \in 1..2 * Len(rows) |->
     Signal("geographic_hotspot", HotspotTopic(rows[(i + 1) \div 2].location),
            rows[(i + 1) \div 2].urgency, 850, rows[(i + 1) \div 2].count,
            [location |-> rows[(i + 1) \div 2].location,
             urgency_level |-> rows[(i + 1) \div 2].urgency])]

\* detect_geographic_hotspots(min_mentions): one signal per row of the query
detect_geographic_hotspots(rows) ==
  [i \in 1..Len(rows) |->
     Signal("geographic_hotspot", HotspotTopic(rows[i].location), rows[i].urgency,
            850, rows[i].count,
            [location |-> rows[i].location, urgency_level |-> rows[i].urgency])]

NegativeSentiments == {"negative", "frustration", "concern"}

\* sum of the counts of the topic's rows whose sentiment is in the set
SentimentCount(rows, topic, sentiments) ==
  SumSeq(CountsOf(SelectSeq(rows,
           LAMBDA row : row.topic = topic /\ row.sentiment \in sentiments)))

AllSentiments(rows) == {rows[i].sentiment : i \in 1..Len(rows)}

\* negative_pct > 60 and total > 20
IsNegativeHeavy(rows, topic) ==
  LET total == SentimentCount(rows, topic, AllSentiments(rows))
      negative_count == SentimentCount(rows, topic, NegativeSentiments)
  IN  100 * negative_count > 60 * total /\ total > 20

SentimentSignal(rows, topic) ==
  LET total == SentimentCount(rows, topic, AllSentiments(rows))
      negative_count == SentimentCount(rows, topic, NegativeSentiments)
  IN  Signal("sentiment_shift", topic,
             IF 100 * negative_count < 75 * total THEN "medium" ELSE "high",
             800, total,
             [negative_percentage |-> <<100 * negative_count, total>>])

\* detect_sentiment_shifts()
detect_sentiment_shifts(rows) ==
  LET topics == SelectSeq(GroupedTopics(rows), LAMBDA t : IsNegativeHeavy(rows, t))
  IN  [i \in 1..Len(topics) |-> SentimentSignal(rows, topics[i])]

\* hours=24, the default window of detect_trending_topics, and the
\* timedelta(hours=24) of the other detectors; time is counted in hours
DefaultHours == 24

\* A Signal is built with three datetime.now() readings, in the order of
\* its keyword arguments: one for signal_id, one for first_seen (less the
\* window) and one for last_seen.  The clock moves by clock.step from one
\* reading to the next.
Stamped(signals, hours) ==
  [i \in 1..Len(signals) |->
     [first_seen |-> clock.now + (3 * i - 2) * clock.step - hours,
      last_seen |-> clock.now + (3 * i - 1) * clock.step] @@ signals[i]]

\* the clock after the readings for k signals
ClockAfter(k) == [clock EXCEPT !.now = @ + 3 * k * clock.step]

\* a clock that stands still between readings, or moves on by an hour
ClockSteps == {0, 1}

\* the detectors other than the spike detector
OtherDetectors == {"detect_trending_topics", "detect_geographic_hotspots",
                   "detect_sentiment_shifts"}

RunDetector(name) ==
  CASE name = "detect_trending_topics" -> detect_trending_topics(hourly_data)
    [] name = "detect_geographic_hotspots" -> detect_geographic_hotspots(location_data)
    [] name = "detect_sentiment_shifts" -> detect_sentiment_shifts(sentiment_data)

\* the (topic, urgency) groups of the count query in the drawn results
SpikeKeys ==
  <<[topic |-> "fuel prices", urgency |-> "medium"],
    [topic |-> "inflation", urgency |-> "high"],
    [topic |-> "tourism boost", urgency |-> "low"],
    [topic |-> "monsoon rain", urgency |-> "medium"]>>

\* the counts a group is drawn with; 0 stands for "no such group"
SpikeCounts == {0, 1, 2, 3, MaxCount}

\* the rows of a choice of counts, groups without posts left out
RowsOfCounts(counts) ==
  LET all == [i \in 1..Len(SpikeKeys) |->
                [topic |-> SpikeKeys[i].topic, urgency |-> SpikeKeys[i].urgency,
                 count |-> counts[i]]]
  IN  SelectSeq(all, LAMBDA row : row.count > 0)

\* eleven groups of 2 posts and `fuel prices` with 20
ScenarioARows ==
  <<[topic |-> "rupee exchange rate", urgency |-> "high", count |-> 2],
    [topic |-> "inflation", urgency |-> "high", count |-> 2],
    [topic |-> "power cut", urgency |-> "high", count |-> 2],
    [topic |-> "road conditions", urgency |-> "medium", count |-> 2],
    [topic |-> "public transport", urgency |-> "medium", count |-> 2],
    [topic |-> "water shortage", urgency |-> "high", count |-> 2],
    [topic |-> "government policy", urgency |-> "medium", count |-> 2],
    [topic |-> "protest", urgency |-> "high", count |-> 2],
    [topic |-> "tourism boost", urgency |-> "low", count |-> 2],
    [topic |-> "tech startup", urgency |-> "low", count |-> 2],
    [topic |-> "cultural festival", urgency |-> "low", count |-> 2],
    [topic |-> "fuel prices", urgency |-> "medium", count |-> 20]>>

\* posts tagged critical: `protest` at 28/13 of the mean of four groups
ScenarioCriticalRows ==
  <<[topic |-> "protest", urgency |-> "critical", count |-> 7],
    [topic |-> "road conditions", urgency |-> "medium", count |-> 2],
    [topic |-> "tourism boost", urgency |-> "low", count |-> 2],
    [topic |-> "tech startup", urgency |-> "low", count |-> 2]>>

\* the query returns its groups in no stated order: each choice of counts
\* in the order of SpikeKeys, the full ones also in the opposite order
TopicDataInputs ==
  LET lists == {RowsOfCounts(c) : c \in [1..Len(SpikeKeys) -> SpikeCounts]}
  IN  lists \cup {Reverse(r) : r \in {q \in lists : Len(q) = Len(SpikeKeys)}}
        \cup {ScenarioARows, ScenarioCriticalRows}

\* a store whose hourly rows hold topics of exactly three buckets (rising and
\* flat), of four buckets at the 1.5 ratio, of five rising and of two
ScenarioTrendStores ==
  {[hourly |-> HourlyRows("fuel prices", <<2, 3, 3, 3>>)
                 \o HourlyRows("inflation", <<1, 5, 9>>)
                 \o HourlyRows("monsoon rain", <<2, 2, 3, 3, 4>>)
                 \o HourlyRows("power cut", <<4, 4, 4>>)
                 \o HourlyRows("protest", <<9, 1>>),
    location |-> <<>>,
    sentiment |-> <<>>]}

\* what the other three queries return: nothing, or a store with a rising
\* topic, two busy locations and a topic of negative mood
StoreInputs ==
  ScenarioTrendStores \cup
  {[hourly |-> <<>>, location |-> <<>>, sentiment |-> <<>>],
   [hourly |-> HourlyRows("flood warning", <<1, 1, 2, 4, 6>>)
                 \o HourlyRows("protest", <<5, 5>>),
    location |-> <<[location |-> "Colombo", urgency |-> "high", count |-> 40],
                   [location |-> "Kandy", urgency |-> "medium", count |-> 31]>>,
    sentiment |-> <<[topic |-> "power cut", sentiment |-> "frustration", count |-> 20],
                    [topic |-> "power cut", sentiment |-> "mixed", count |-> 5],
                    [topic |-> "tourism boost", sentiment |-> "positive", count |-> 30]>>]}

\* the threshold multipliers a caller passes, in tenths (default 2.0)
Multipliers == {15, 20}

\* detect_topic_spikes(m), the first call
DetectTopicSpikes ==
  \E m \in Multipliers :
    /\ spikes = NoCall
    /\ spikes' = [op |-> "detect_topic_spikes", threshold_multiplier |-> m,
                  raised |-> detect_topic_spikes_raises(topic_data, m),
                  returned |-> Stamped(detect_topic_spikes(topic_data, m), DefaultHours)]
    /\ clock' = ClockAfter(Len(SpikesOf(topic_data, m)))
    /\ UNCHANGED <<topic_data, prev_spikes, between, location_data, sentiment_data>>
    /\ UNCHANGED <<scorer_vars, index_vars, velocity_vars, warning_vars, pipeline_vars, insight_vars>>

\* one of the other detectors runs after the first spike detection
DetectOther ==
  \E name \in OtherDetectors :
    /\ spikes # NoCall
    /\ prev_spikes = NoCall
    /\ \A b \in between : b.detector # name
    /\ between' = between \cup {[detector |-> name,
                                  returned |-> Stamped(RunDetector(name), DefaultHours)]}
    /\ clock' = ClockAfter(Len(RunDetector(name)))
    /\ UNCHANGED <<topic_data, spikes, prev_spikes, location_data, sentiment_data>>
    /\ UNCHANGED <<scorer_vars, index_vars, velocity_vars, warning_vars, pipeline_vars, insight_vars>>

\* detect_topic_spikes(m) again, on the same store
DetectTopicSpikesAgain ==
  \E m \in Multipliers :
    /\ spikes # NoCall
    /\ prev_spikes = NoCall
    /\ prev_spikes' = spikes
    /\ spikes' = [op |-> "detect_topic_spikes", threshold_multiplier |-> m,
                  raised |-> detect_topic_spikes_raises(topic_data, m),
                  returned |-> Stamped(detect_topic_spikes(topic_data, m), DefaultHours)]
    /\ clock' = ClockAfter(Len(SpikesOf(topic_data, m)))
    /\ UNCHANGED <<topic_data, between, location_data, sentiment_data>>
    /\ UNCHANGED <<scorer_vars, index_vars, velocity_vars, warning_vars, pipeline_vars, insight_vars>>

NextDetector == DetectTopicSpikes \/ DetectOther \/ DetectTopicSpikesAgain

-----------------------------------------------------------------------------
(* EarlyWarningSystem (src/analytics/alerts/early_warning.py).             *)
(* A warning is a record of the fields of the dict the code builds that    *)
(* carry data; icon, title, message, prediction text, recommended action   *)
(* and time horizon are fixed or formatted text and are left out.          *)
(* velocities is the dict returned by calculate_topic_velocity, as the     *)
(* sequence of its entries.  A predicted rate is in hundredths.            *)

WARNING_TYPES ==
  [acceleration |-> [priority |-> "CRITICAL"],
   correlation |-> [priority |-> "HIGH"],
   geographic |-> [priority |-> "HIGH"],
   persistence |-> [priority |-> "MEDIUM"],
   cascade |-> [priority |-> "CRITICAL"]]

HighUrgencies == {"critical", "high"}

\* signal.topic in velocities
InVelocities(topic, velocity_list) ==
  \E i \in 1..Len(velocity_list) : velocity_list[i].topic = topic

\* velocities[signal.topic]
VelocityOf(topic, velocity_list) ==
  velocity_list[CHOOSE i \in 1..Len(velocity_list) : velocity_list[i].topic = topic]

\* the trend test alone, whatever the urgency of the signal
IsAccelerating_whatever_urgency(signal, velocity_list) ==
  /\ InVelocities(signal.topic, velocity_list)
  /\ VelocityOf(signal.topic, velocity_list).trend \in {"ACCELERATING", "GROWING"}

IsAccelerating(signal, velocity_list) ==
  /\ signal.urgency \in HighUrgencies
  /\ InVelocities(signal.topic, velocity_list)
  /\ VelocityOf(signal.topic, velocity_list).trend \in {"ACCELERATING", "GROWING"}

AccelerationWarning(signal, velocity_data) ==
  [type |-> "acceleration",
   topic |-> signal.topic,
   priority |-> WARNING_TYPES.acceleration.priority,
   confidence |-> Min(950, signal.confidence_score + 100),
   current_urgency |-> signal.urgency,
   metadata |-> [velocity |-> velocity_data.velocity,
                 current_rate |-> velocity_data.recent_avg,
                 predicted_rate |-> 10 * velocity_data.recent_avg
                                      + 6 * velocity_data.velocity]]

\* _detect_acceleration_warnings(signals, velocities)
detect_acceleration_warnings(signals, velocity_list) ==
  LET hits == SelectSeq(signals, LAMBDA sig : IsAccelerating(sig, velocity_list))
  IN  [i \in 1..Len(hits) |->
         AccelerationWarning(hits[i], VelocityOf(hits[i].topic, velocity_list))]

economic_topics == <<"fuel prices", "inflation", "rupee exchange rate", "economy", "cost">>

infra_topics ==
  <<"power cut", "road conditions", "transport", "water shortage", "electricity">>

TopicsOf(signals) == [i \in 1..Len(signals) |-> signals[i].topic]

\* the economic warning with priority HIGH whatever the urgencies
EconomicClusterWarning_always_high(economic_signals) ==
  [type |-> "correlation",
   topic |-> "economic_cluster",
   priority |-> "HIGH",
   confidence |-> 800,
   current_urgency |-> "high",
   metadata |-> [signal_count |-> Len(economic_signals),
                 topics |-> TopicsOf(economic_signals)]]

EconomicClusterWarning(economic_signals) ==
  LET avg_urgency ==
        Len(SelectSeq(economic_signals, LAMBDA sig : sig.urgency \in HighUrgencies))
  IN  [type |-> "correlation",
       topic |-> "economic_cluster",
       priority |-> IF avg_urgency >= 1 THEN "HIGH" ELSE "MEDIUM",
       confidence |-> 800,
       current_urgency |-> "high",
       metadata |-> [signal_count |-> Len(economic_signals),
                     topics |-> TopicsOf(economic_signals)]]

InfrastructureClusterWarning(infra_signals) ==
  [type |-> "correlation",
   topic |-> "infrastructure_cluster",
   priority |-> "HIGH",
   confidence |-> 750,
   current_urgency |-> "high",
   metadata |-> [signal_count |-> Len(infra_signals),
                 topics |-> TopicsOf(infra_signals)]]

\* _detect_correlation_warnings(signals)
detect_correlation_warnings(signals) ==
  LET economic_signals ==
        SelectSeq(signals, LAMBDA sig : MatchesAny(sig.topic, economic_topics))
      infra_signals ==
        SelectSeq(signals, LAMBDA sig : MatchesAny(sig.topic, infra_topics))
  IN  (IF Len(economic_signals) >= 2
         THEN <<EconomicClusterWarning(economic_signals)>> ELSE <<>>)
      \o (IF Len(infra_signals) >= 2
            THEN <<InfrastructureClusterWarning(infra_signals)>> ELSE <<>>)

HasLocation(signal) == "location" \in DOMAIN signal.metadata

\* location_counts[location]
SignalsAt(signals, location) ==
  SelectSeq(signals, LAMBDA sig : HasLocation(sig) /\ sig.metadata.location = location)

\* the keys of location_counts, in insertion order
Locations(signals) ==
  LET located == SelectSeq(signals, HasLocation)
  IN  FirstOccurrences([i \in 1..Len(located) |-> located[i].metadata.location])

\* every signal of the location counted, whatever its urgency
high_urgency_of_any_urgency(loc_signals) == Len(loc_signals)

high_urgency(loc_signals) ==
  Len(SelectSeq(loc_signals, LAMBDA sig : sig.urgency \in HighUrgencies))

\* f'{location}_hotspot'
HotspotWarningTopic(location) ==
  CASE location = "Colombo" -> "Colombo_hotspot"
    [] location = "Kandy" -> "Kandy_hotspot"

GeographicWarning(location, loc_signals) ==
  [type |-> "geographic",
   topic |-> HotspotWarningTopic(location),
   priority |-> "HIGH",
   confidence |-> 850,
   current_urgency |-> "high",
   metadata |-> [location |-> location,
                 signal_count |-> Len(loc_signals),
                 high_urgency_count |-> high_urgency(loc_signals)]]

\* _detect_geographic_warnings(signals)
detect_geographic_warnings(signals) ==
  LET hot == SelectSeq(Locations(signals),
                       LAMBDA loc : /\ Len(SignalsAt(signals, loc)) >= 3
                                    /\ high_urgency(SignalsAt(signals, loc)) >= 2)
  IN  [i \in 1..Len(hot) |-> GeographicWarning(hot[i], SignalsAt(signals, hot[i]))]

\* topic_volumes[topic]
topic_volume(signals, topic) ==
  SumSeq([i \in 1..Len(signals) |->
            IF signals[i].topic = topic THEN signals[i].source_count ELSE 0])

\* code point of the first character of each urgency string; they differ,
\* so they decide how Python orders the strings
UrgencyFirstChar == [critical |-> 99, high |-> 104, low |-> 108, medium |-> 109]

\* max(s.urgency for s in topic_signals): the greatest string
MaxUrgencyString(topic_signals) ==
  LET urgencies == {topic_signals[i].urgency : i \in 1..Len(topic_signals)}
  IN  CHOOSE u \in urgencies :
        \A v \in urgencies : UrgencyFirstChar[v] <= UrgencyFirstChar[u]

PersistenceWarning(signals, topic) ==
  LET topic_signals == SelectSeq(signals, LAMBDA sig : sig.topic = topic)
  IN  [type |-> "persistence",
       topic |-> topic,
       priority |-> "MEDIUM",
       confidence |-> 700,
       current_urgency |-> MaxUrgencyString(topic_signals),
       metadata |-> [total_mentions |-> topic_volume(signals, topic),
                     signal_count |-> Len(topic_signals)]]

\* _detect_persistence_warnings(signals)
detect_persistence_warnings(signals) ==
  LET loud == SelectSeq(FirstOccurrences(TopicsOf(signals)),
                        LAMBDA t : topic_volume(signals, t) > 50)
  IN  [i \in 1..Len(loud) |-> PersistenceWarning(signals, loud[i])]

\* the characters of the chain titles and of the warning topics made of them
TitleChars ==
  "Economic Cascade" :> <<"E","c","o","n","o","m","i","c"," ","C","a","s","c","a","d","e">> @@
  "Weather Cascade" :> <<"W","e","a","t","h","e","r"," ","C","a","s","c","a","d","e">> @@
  "Infrastructure Cascade" :> <<"I","n","f","r","a","s","t","r","u","c","t","u","r","e"," ","C","a","s","c","a","d","e">> @@
  "economic_cascade" :> <<"e","c","o","n","o","m","i","c","_","c","a","s","c","a","d","e">> @@
  "weather_cascade" :> <<"w","e","a","t","h","e","r","_","c","a","s","c","a","d","e">> @@
  "infrastructure_cascade" :> <<"i","n","f","r","a","s","t","r","u","c","t","u","r","e","_","c","a","s","c","a","d","e">>

\* chain['title'].lower().replace(' ', '_')
CascadeTopic(title) ==
  LET lowered == Lower(TitleChars[title])
      replaced == [i \in 1..Len(lowered) |-> IF lowered[i] = " " THEN "_" ELSE lowered[i]]
  IN  CHOOSE name \in DOMAIN TitleChars : TitleChars[name] = replaced

\* the chains with `transport` missing from the economic effects
cascade_chains_without_transport ==
  <<[trigger |-> <<"fuel prices", "rupee exchange rate">>,
     effects |-> <<"inflation", "cost">>,
     title |-> "Economic Cascade"],
    [trigger |-> <<"flood warning", "monsoon rain">>,
     effects |-> <<"road conditions", "power cut", "water shortage">>,
     title |-> "Weather Cascade"],
    [trigger |-> <<"power cut">>,
     effects |-> <<"water shortage", "public transport">>,
     title |-> "Infrastructure Cascade"]>>

cascade_chains ==
  <<[trigger |-> <<"fuel prices", "rupee exchange rate">>,
     effects |-> <<"inflation", "cost", "transport">>,
     title |-> "Economic Cascade"],
    [trigger |-> <<"flood warning", "monsoon rain">>,
     effects |-> <<"road conditions", "power cut", "water shortage">>,
     title |-> "Weather Cascade"],
    [trigger |-> <<"power cut">>,
     effects |-> <<"water shortage", "public transport">>,
     title |-> "Infrastructure Cascade"]>>

CascadeWarning(chain, trigger_signals, effect_signals) ==
  [type |-> "cascade",
   topic |-> CascadeTopic(chain.title),
   priority |-> "CRITICAL",
   confidence |-> 750,
   current_urgency |-> "critical",
   metadata |-> [triggers |-> TopicsOf(trigger_signals),
                 effects |-> TopicsOf(effect_signals)]]

\* _detect_cascade_warnings(signals)
detect_cascade_warnings(signals) ==
  LET trigger_signals(chain) ==
        SelectSeq(signals, LAMBDA sig : MatchesAny(sig.topic, chain.trigger))
      effect_signals(chain) ==
        SelectSeq(signals, LAMBDA sig : MatchesAny(sig.topic, chain.effects))
      firing == SelectSeq(cascade_chains,
                          LAMBDA chain : /\ trigger_signals(chain) # <<>>
                                         /\ effect_signals(chain) # <<>>)
  IN  [i \in 1..Len(firing) |->
         CascadeWarning(firing[i], trigger_signals(firing[i]), effect_signals(firing[i]))]

priority_order == [CRITICAL |-> 0, HIGH |-> 1, MEDIUM |-> 2, LOW |-> 3]

\* priority_order.get(x['priority'], 999)
PriorityKey(warning) == Get(priority_order, warning.priority, 999)

\* a warning put before the sorted warnings that do not come before it
InsertBeforeTies(sorted, w) ==
  LET before == SelectSeq(sorted, LAMBDA x : PriorityKey(x) < PriorityKey(w))
      after == SelectSeq(sorted, LAMBDA x : PriorityKey(x) >= PriorityKey(w))
  IN  before \o <<w>> \o after

\* a warning put after the sorted warnings that do not come after it
InsertAfterTies(sorted, w) ==
  LET before == SelectSeq(sorted, LAMBDA x : PriorityKey(x) <= PriorityKey(w))
      after == SelectSeq(sorted, LAMBDA x : PriorityKey(x) > PriorityKey(w))
  IN  before \o <<w>> \o after

RECURSIVE SortTiesReversed(_)
SortTiesReversed(ws) ==
  IF ws = <<>> THEN <<>>
  ELSE InsertBeforeTies(SortTiesReversed(SubSeq(ws, 1, Len(ws) - 1)), ws[Len(ws)])

RECURSIVE SortStable(_)
SortStable(ws) ==
  IF ws = <<>> THEN <<>>
  ELSE InsertAfterTies(SortStable(SubSeq(ws, 1, Len(ws) - 1)), ws[Len(ws)])

\* a sort by priority that turns the order of equal priorities around
sort_by_priority_ties_reversed(ws) == SortTiesReversed(ws)

\* warnings.sort(key=...): list.sort is stable
sort_by_priority(ws) == SortStable(ws)

\* the list generate_warnings has built when it comes to sort it
GeneratedWarnings(signals, velocity_list) ==
  detect_acceleration_warnings(signals, velocity_list)
    \o detect_correlation_warnings(signals)
    \o detect_geographic_warnings(signals)
    \o detect_persistence_warnings(signals)
    \o detect_cascade_warnings(signals)

\* generate_warnings(signals, velocities)
generate_warnings(signals, velocity_list) ==
  sort_by_priority(GeneratedWarnings(signals, velocity_list))

\* the signals of the lists handed to generate_warnings
WarnInputs ==
  {Signal("spike", "fuel prices", "high", 900, 20, NoMetadata),
   Signal("spike", "inflation", "high", 800, 30, NoMetadata),
   Signal("trend", "inflation", "medium", 750, 30, NoMetadata),
   Signal("spike", "power cut", "high", 950, 60, NoMetadata),
   Signal("trend", "public transport", "medium", 750, 10, NoMetadata),
   Signal("spike", "monsoon rain", "low", 800, 5, NoMetadata),
   Signal("sentiment_shift", "protest", "critical", 800, 25, NoMetadata),
   Signal("geographic_hotspot", "Activity in Colombo", "high", 850, 40,
          [location |-> "Colombo", urgency_level |-> "high"]),
   Signal("geographic_hotspot", "Activity in Colombo", "medium", 850, 31,
          [location |-> "Colombo", urgency_level |-> "medium"]),
   Signal("geographic_hotspot", "Activity in Kandy", "high", 850, 35,
          [location |-> "Kandy", urgency_level |-> "high"])}

\* the velocity dicts handed to generate_warnings: none, one with growing
\* `fuel prices` and `power cut`, one with accelerating `inflation` and
\* fading `fuel prices`
WarnVelocityInputs ==
  {calculate_topic_velocity(<<>>),
   calculate_topic_velocity(HourlyRows("fuel prices", <<1, 1, 1, 3, 4, 5>>)
                              \o HourlyRows("power cut", <<2, 2, 2, 6, 6, 6>>)),
   calculate_topic_velocity(HourlyRows("fuel prices", <<9, 9, 9, 1, 1, 1>>)
                              \o HourlyRows("inflation", <<1, 1, 1, 9, 9, 9>>))}

\* generate_warnings(signals, velocities)
GenerateWarnings ==
  /\ warnings = NoCall
  /\ warnings' = [op |-> "generate_warnings",
                  generated |-> GeneratedWarnings(warn_signals, warn_velocities),
                  returned |-> generate_warnings(warn_signals, warn_velocities)]
  /\ UNCHANGED <<warn_signals, warn_velocities>>
  /\ UNCHANGED <<scorer_vars, index_vars, velocity_vars, detector_vars, pipeline_vars, insight_vars>>

NextWarnings == GenerateWarnings

-----------------------------------------------------------------------------
(* InsightGenerator (src/analytics/generators/insight_generator.py).       *)
(* A title is kept as its prefix and topic, a recommendation as the text   *)
(* it is taken from and the topic, a confidence as the fraction sum /      *)
(* count in tenths, affected_areas as a set (the list is built from one).  *)

\* the topics of insight_templates['operational_risk']
OperationalTemplates == {"fuel prices", "power cut", "flood warning", "protest"}

\* _get_recommendation(topic, 'operational_risk')
get_recommendation(topic) ==
  [text |-> IF topic \in OperationalTemplates THEN "template" ELSE "default",
   topic |-> topic]

\* _create_operational_risk_insight(topic, signals)
create_operational_risk_insight(topic, signals) ==
  LET urgencies == {signals[i].urgency : i \in 1..Len(signals)}
      located == SelectSeq(signals, HasLocation)
      locations == {located[i].metadata.location : i \in 1..Len(located)}
  IN  [insight_type |-> "operational_risk",
       title |-> <<"Operational Risk", topic>>,
       severity |-> IF "critical" \in urgencies THEN "critical"
                    ELSE IF "high" \in urgencies THEN "critical"
                    ELSE "warning",
       affected_areas |-> IF locations # {} THEN locations ELSE {"National"},
       recommendation |-> get_recommendation(topic),
       supporting_signals |-> signals,
       confidence |-> <<SumSeq([i \in 1..Len(signals) |-> signals[i].confidence_score]),
                        Len(signals)>>]

\* _create_awareness_insight(topic, signals)
create_awareness_insight(topic, signals) ==
  [insight_type |-> "situational_awareness",
   title |-> <<"Public Attention", topic>>,
   severity |-> "info",
   affected_areas |-> {"National"},
   recommendation |-> [text |-> "continue monitoring", topic |-> topic],
   supporting_signals |-> signals,
   confidence |-> <<700, 1>>]

\* an operational risk insight for every key, whatever its urgencies
TopicInsight_always_operational_risk(topic, topic_sigs) ==
  create_operational_risk_insight(topic, topic_sigs)

\* the insight of one key of topic_signals
TopicInsight(topic, topic_sigs) ==
  IF \E i \in 1..Len(topic_sigs) : topic_sigs[i].urgency \in {"critical", "high"}
    THEN create_operational_risk_insight(topic, topic_sigs)
    ELSE create_awareness_insight(topic, topic_sigs)

\* economic_topics and infrastructure_topics of _generate_cross_topic_insights
CrossEconomicTopics == {"fuel prices", "inflation", "rupee exchange rate"}

CrossInfrastructureTopics ==
  {"power cut", "road conditions", "public transport", "water shortage"}

\* _generate_cross_topic_insights(signals)
generate_cross_topic_insights(signals) ==
  LET economic_signals == SelectSeq(signals, LAMBDA sig : sig.topic \in CrossEconomicTopics)
      infra_signals == SelectSeq(signals, LAMBDA sig : sig.topic \in CrossInfrastructureTopics)
  IN  (IF Len(economic_signals) >= 2
         THEN <<[insight_type |-> "economic_pressure",
                 title |-> <<"Economic Pressure Indicators", "">>,
                 severity |-> "warning",
                 affected_areas |-> {"National"},
                 recommendation |-> [text |-> "economic pressure", topic |-> ""],
                 supporting_signals |-> economic_signals,
                 confidence |-> <<800, 1>>]>>
         ELSE <<>>)
      \o
      (IF Len(infra_signals) >= 2
         THEN <<[insight_type |-> "infrastructure_stress",
                 title |-> <<"Infrastructure Challenges Detected", "">>,
                 severity |-> "warning",
                 affected_areas |-> {"National"},
                 recommendation |-> [text |-> "infrastructure stress", topic |-> ""],
                 supporting_signals |-> infra_signals,
                 confidence |-> <<750, 1>>]>>
         ELSE <<>>)

\* every per-topic insight supported by the whole input list
generate_insights_supported_by_all(signals) ==
  LET topics == FirstOccurrences([i \in 1..Len(signals) |-> signals[i].topic])
  IN  [i \in 1..Len(topics) |-> TopicInsight(topics[i], signals)]
        \o generate_cross_topic_insights(signals)

\* generate_insights(signals): one insight per topic in the order the
\* topics first appear, then the cross-topic insights
generate_insights(signals) ==
  LET topics == FirstOccurrences([i \in 1..Len(signals) |-> signals[i].topic])
  IN  [i \in 1..Len(topics) |->
         TopicInsight(topics[i], SelectSeq(signals, LAMBDA sig : sig.topic = topics[i]))]
        \o generate_cross_topic_insights(signals)

\* timedelta(hours=48), (hours=24), (days=7), (days=3), in hours
InsightWindow ==
  [operational_risk |-> 48, situational_awareness |-> 24,
   economic_pressure |-> 168, infrastructure_stress |-> 72]

\* an Insight is built with two datetime.now() readings, one for created_at
\* and one for valid_until
StampedInsights(insights) ==
  [i \in 1..Len(insights) |->
     [created_at |-> clock.now + (2 * i - 2) * clock.step,
      valid_until |-> clock.now + (2 * i - 1) * clock.step
                        + InsightWindow[insights[i].insight_type]] @@ insights[i]]

\* the clock after the readings for k insights
ClockAfterInsights(k) == [clock EXCEPT !.now = @ + 2 * k * clock.step]

\* generate_insights(signals), called on a list of the caller
CallGenerateInsights ==
  /\ generated_insights = NoCall
  /\ generated_insights' = [op |-> "generate_insights",
                            returned |-> StampedInsights(generate_insights(insight_signals))]
  /\ clock' = ClockAfterInsights(Len(generate_insights(insight_signals)))
  /\ UNCHANGED <<insight_signals, topic_data, spikes, prev_spikes, between, location_data,
                 sentiment_data>>
  /\ UNCHANGED <<scorer_vars, index_vars, velocity_vars, warning_vars, pipeline_vars>>

NextInsights == CallGenerateInsights

-----------------------------------------------------------------------------
(* AnalyticsEngine (src/analytics/run_analytics.py).  A run is one call of *)
(* run_full_analysis or run_enhanced_analysis on an engine of its own;     *)
(* the runs share the store and the clock.  A stage is named after the     *)
(* call that makes it.  The queries read the social_posts table, whose     *)
(* aggregates are topic_data, hourly_data, location_data, sentiment_data;  *)
(* the stores write the signals and insights tables.                       *)

Runs == {"first", "second"}

Methods == {"run_full_analysis", "run_enhanced_analysis"}

\* run_all_detectors: the four detectors in the order they are called
Detectors ==
  <<"detect_topic_spikes", "detect_trending_topics",
    "detect_geographic_hotspots", "detect_sentiment_shifts">>

\* the stages that issue an aggregate query of their own
QueryStages == {Detectors[k] : k \in 1..Len(Detectors)} \cup {"calculate_topic_velocity"}

\* velocity tracking moved ahead of scoring
Stages_velocity_before_scoring(method) ==
  IF method = "run_enhanced_analysis"
    THEN Detectors \o <<"calculate_topic_velocity", "rank_signals", "calculate_all_indices",
                        "generate_warnings", "generate_insights",
                        "_store_signals", "_store_insights">>
    ELSE Detectors \o <<"rank_signals", "generate_insights",
                        "_store_signals", "_store_insights">>

\* the calls of a run, in program order
Stages(method) ==
  IF method = "run_enhanced_analysis"
    THEN Detectors \o <<"rank_signals", "calculate_all_indices", "calculate_topic_velocity",
                        "generate_warnings", "generate_insights",
                        "_store_signals", "_store_insights">>
    ELSE Detectors \o <<"rank_signals", "generate_insights",
                        "_store_signals", "_store_insights">>

\* threshold_multiplier=2.0, in tenths
DefaultMultiplier == 20

\* top_n=15
TopN == 15

\* a run that has not been started
IdleRun ==
  [method |-> "none", status |-> "idle", done |-> <<>>, issued |-> <<>>,
   raised_in |-> "none", results |-> <<>>]

NextStage(run) == Stages(run.method)[Len(run.done) + 1]

IsAt(r, stage) == pipeline[r].status = "running" /\ NextStage(pipeline[r]) = stage

\* cursor.execute(...) of the stage's query is called
Issued(run, stage) == [run EXCEPT !.issued = Append(@, stage)]

\* the call returns: its result is bound and the run moves to the next call
Finished(run, stage, result) ==
  [run EXCEPT !.done = Append(@, stage),
              !.results = (stage :> result) @@ @,
              !.status = IF Len(run.done) + 1 = Len(Stages(run.method))
                           THEN "returned" ELSE "running"]

\* a run that stays at the call that raised and makes it again
Raised_and_retried(run, stage) == [run EXCEPT !.raised_in = stage]

\* the call raises: get_cursor rolls back and re-raises, nothing in the
\* run catches it, and the method ends with the exception
Raised(run, stage) == [run EXCEPT !.status = "raised", !.raised_in = stage]

\* a query that also counts the rows of the signals table
QueryResult_counting_stored_signals(stage) ==
  CASE stage = "detect_topic_spikes" ->
         topic_data \o [i \in 1..Len(stored.signals) |->
                          [topic |-> stored.signals[i].signal.topic,
                           urgency |-> stored.signals[i].signal.urgency,
                           count |-> stored.signals[i].signal.source_count]]
    [] stage = "detect_trending_topics" -> hourly_data
    [] stage = "detect_geographic_hotspots" -> location_data
    [] stage = "detect_sentiment_shifts" -> sentiment_data
    [] stage = "calculate_topic_velocity" -> hourly_data

\* cursor.fetchall() of the stage's query
QueryResult(stage) ==
  CASE stage = "detect_topic_spikes" -> topic_data
    [] stage = "detect_trending_topics" -> hourly_data
    [] stage = "detect_geographic_hotspots" -> location_data
    [] stage = "detect_sentiment_shifts" -> sentiment_data
    [] stage = "calculate_topic_velocity" -> hourly_data

\* what a detector makes of the rows of its query
DetectorSignals(stage, rows) ==
  CASE stage = "detect_topic_spikes" -> detect_topic_spikes(rows, DefaultMultiplier)
    [] stage = "detect_trending_topics" -> detect_trending_topics(rows)
    [] stage = "detect_geographic_hotspots" -> detect_geographic_hotspots(rows)
    [] stage = "detect_sentiment_shifts" -> detect_sentiment_shifts(rows)

\* all_signals: the lists of pattern_results.values(), one after another
all_signals(run) ==
  run.results["detect_topic_spikes"] \o run.results["detect_trending_topics"]
    \o run.results["detect_geographic_hotspots"] \o run.results["detect_sentiment_shifts"]

priority_signals(run) == run.results["rank_signals"].priority_signals

\* the rows a run inserts; run is not a column, it tells whose rows they are
RowsOf(r, kind, items) == [i \in 1..Len(items) |-> [run |-> r, kind |-> kind, signal |-> items[i]]]

\* the store of a run: nothing, a busy day, or a day with too little data
PipelineStores ==
  {[topic |-> <<>>, hourly |-> <<>>, location |-> <<>>, sentiment |-> <<>>],
   [topic |-> <<[topic |-> "fuel prices", urgency |-> "medium", count |-> 20],
                [topic |-> "inflation", urgency |-> "high", count |-> 20],
                [topic |-> "power cut", urgency |-> "high", count |-> 2],
                [topic |-> "road conditions", urgency |-> "medium", count |-> 2],
                [topic |-> "protest", urgency |-> "high", count |-> 2],
                [topic |-> "tourism boost", urgency |-> "low", count |-> 2],
                [topic |-> "tech startup", urgency |-> "low", count |-> 2],
                [topic |-> "cultural festival", urgency |-> "low", count |-> 2]>>,
    hourly |-> HourlyRows("cultural festival", <<3, 1>>)
                 \o HourlyRows("flood warning", <<1, 1, 2, 2, 4>>)
                 \o HourlyRows("fuel prices", <<1, 1, 1, 9, 9, 9>>)
                 \o HourlyRows("protest", <<5, 5>>),
    location |-> <<[location |-> "Colombo", urgency |-> "high", count |-> 50],
                   [location |-> "Kandy", urgency |-> "medium", count |-> 40],
                   [location |-> "Colombo", urgency |-> "medium", count |-> 40]>>,
    sentiment |-> <<[topic |-> "power cut", sentiment |-> "frustration", count |-> 20],
                    [topic |-> "power cut", sentiment |-> "mixed", count |-> 10],
                    [topic |-> "tourism boost", sentiment |-> "positive", count |-> 30]>>],
   [topic |-> <<[topic |-> "protest", urgency |-> "high", count |-> 10]>>,
    hourly |-> HourlyRows("protest", <<5, 5>>),
    location |-> <<>>,
    sentiment |-> <<[topic |-> "protest", sentiment |-> "negative", count |-> 10]>>]}

\* engine.run_full_analysis() or engine.run_enhanced_analysis() is called
StartRun(r) ==
  \E method \in Methods :
    /\ pipeline[r].status = "idle"
    /\ pipeline' = [pipeline EXCEPT ![r] = [@ EXCEPT !.method = method, !.status = "running"]]
    /\ UNCHANGED <<stored, scorer_vars, index_vars, velocity_vars, detector_vars, warning_vars, insight_vars>>

\* one detector of run_all_detectors: its query returns and the signals
\* are built, or its query raises
RunAllDetectors(r) ==
  \E k \in 1..Len(Detectors) :
    LET stage == Detectors[k]
        signals == DetectorSignals(stage, QueryResult(stage))
    IN  /\ IsAt(r, stage)
        /\ \/ /\ pipeline' = [pipeline EXCEPT ![r] =
                                Finished(Issued(@, stage), stage, Stamped(signals, DefaultHours))]
              /\ clock' = ClockAfter(Len(signals))
           \/ /\ pipeline' = [pipeline EXCEPT ![r] = Raised(Issued(@, stage), stage)]
              /\ UNCHANGED clock
        /\ UNCHANGED <<stored, topic_data, spikes, prev_spikes, between, location_data,
                       sentiment_data>>
        /\ UNCHANGED <<scorer_vars, index_vars, velocity_vars, warning_vars, insight_vars>>

\* rank_signals(all_signals) and get_priority_signals(all_signals, top_n=15)
ScoreSignals(r) ==
  /\ IsAt(r, "rank_signals")
  /\ pipeline' = [pipeline EXCEPT ![r] =
       Finished(@, "rank_signals",
                [ranked_signals |-> rank_signals(all_signals(@)),
                 priority_signals |-> get_priority_signals(all_signals(@), TopN)])]
  /\ UNCHANGED <<stored, scorer_vars, index_vars, velocity_vars, detector_vars, warning_vars, insight_vars>>

\* calculate_all_indices(all_signals) and get_overall_business_risk_score(all_signals)
CompositeIndices(r) ==
  /\ IsAt(r, "calculate_all_indices")
  /\ \E overall_risk \in get_overall_business_risk_score(all_signals(pipeline[r])) :
       pipeline' = [pipeline EXCEPT ![r] =
         Finished(@, "calculate_all_indices",
                  [indices |-> calculate_all_indices(all_signals(@)),
                   overall_risk |-> overall_risk])]
  /\ UNCHANGED <<stored, scorer_vars, index_vars, velocity_vars, detector_vars, warning_vars, insight_vars>>

\* VelocityTracker().calculate_topic_velocity(): its query returns, or raises
TrackVelocity(r) ==
  LET stage == "calculate_topic_velocity"
  IN  /\ IsAt(r, stage)
      /\ \/ pipeline' = [pipeline EXCEPT ![r] =
              Finished(Issued(@, stage), stage, calculate_topic_velocity(QueryResult(stage)))]
         \/ pipeline' = [pipeline EXCEPT ![r] = Raised(Issued(@, stage), stage)]
      /\ UNCHANGED <<stored, scorer_vars, index_vars, velocity_vars, detector_vars, warning_vars, insight_vars>>

\* EarlyWarningSystem().generate_warnings(priority_signals, velocities)
EarlyWarnings(r) ==
  /\ IsAt(r, "generate_warnings")
  /\ pipeline' = [pipeline EXCEPT ![r] =
       Finished(@, "generate_warnings",
                generate_warnings(priority_signals(@), @.results["calculate_topic_velocity"]))]
  /\ UNCHANGED <<stored, scorer_vars, index_vars, velocity_vars, detector_vars, warning_vars, insight_vars>>

\* generate_insights(priority_signals)
GenerateInsights(r) ==
  LET insights == generate_insights(priority_signals(pipeline[r]))
  IN  /\ IsAt(r, "generate_insights")
      /\ pipeline' = [pipeline EXCEPT ![r] =
           Finished(@, "generate_insights", StampedInsights(insights))]
      /\ clock' = ClockAfterInsights(Len(insights))
      /\ UNCHANGED <<stored, topic_data, spikes, prev_spikes, between, location_data,
                     sentiment_data>>
      /\ UNCHANGED <<scorer_vars, index_vars, velocity_vars, warning_vars, insight_vars>>

\* a connection in autocommit: the rows inserted before the failure stay
get_cursor_without_rollback(committed, rows, fails_at) ==
  IF fails_at = 0 THEN committed \o rows
  ELSE committed \o SubSeq(rows, 1, Min(fails_at - 1, Len(rows)))

\* Database.get_cursor around the INSERTs of rows: the table after the
\* block.  fails_at = 0: every execute and the commit succeed; fails_at =
\* k: the k-th execute raises (the commit, for k = Len(rows) + 1) and the
\* rows inserted before it are rolled back.
get_cursor(committed, rows, fails_at) ==
  IF fails_at = 0 THEN committed \o rows ELSE committed

\* _store_signals(all_signals): every INSERT and the commit, or one of
\* them raises and the transaction is rolled back
StoreSignals(r) ==
  LET stage == "_store_signals"
      rows == RowsOf(r, "signal", all_signals(pipeline[r]))
  IN  /\ IsAt(r, stage)
      /\ \E fails_at \in 0..(Len(rows) + 1) :
           /\ stored' = [stored EXCEPT !.signals = get_cursor(@, rows, fails_at)]
           /\ pipeline' = [pipeline EXCEPT ![r] =
                             IF fails_at = 0 THEN Finished(@, stage, Len(all_signals(@)))
                             ELSE Raised(@, stage)]
      /\ UNCHANGED <<scorer_vars, index_vars, velocity_vars, detector_vars, warning_vars, insight_vars>>

\* _store_insights(insights), in a transaction of its own
StoreInsights(r) ==
  LET stage == "_store_insights"
      insights == pipeline[r].results["generate_insights"]
      rows == RowsOf(r, "insight", insights)
  IN  /\ IsAt(r, stage)
      /\ \E fails_at \in 0..(Len(rows) + 1) :
           /\ stored' = [stored EXCEPT !.insights = get_cursor(@, rows, fails_at)]
           /\ pipeline' = [pipeline EXCEPT ![r] =
                             IF fails_at = 0 THEN Finished(@, stage, Len(insights))
                             ELSE Raised(@, stage)]
      /\ UNCHANGED <<scorer_vars, index_vars, velocity_vars, detector_vars, warning_vars, insight_vars>>

NextPipeline ==
  \E r \in Runs :
    \/ StartRun(r)
    \/ RunAllDetectors(r)
    \/ ScoreSignals(r)
    \/ CompositeIndices(r)
    \/ TrackVelocity(r)
    \/ EarlyWarnings(r)
    \/ GenerateInsights(r)
    \/ StoreSignals(r)
    \/ StoreInsights(r)

-----------------------------------------------------------------------------
(* Initial states: one component under way, the others not in use *)

ScorerIdle == scorer_signals = <<>> /\ last_call = NoCall /\ memo = NoCall

IndexIdle ==
  /\ index_signals = <<>>
  /\ indices = NoCall
  /\ overall = NoCall
  /\ prev_indices = NoCall
  /\ appended = NoCall

VelocityIdle == hourly_data = <<>> /\ velocities = NoCall

DetectorIdle ==
  /\ topic_data = <<>>
  /\ spikes = NoCall
  /\ prev_spikes = NoCall
  /\ between = {}
  /\ location_data = <<>>
  /\ sentiment_data = <<>>
  /\ clock = [now |-> 0, step |-> 0]

WarningIdle == warn_signals = <<>> /\ warn_velocities = <<>> /\ warnings = NoCall

PipelineIdle ==
  /\ pipeline = [r \in Runs |-> IdleRun]
  /\ stored = [signals |-> <<>>, insights |-> <<>>]

InsightIdle == insight_signals = <<>> /\ generated_insights = NoCall

\* a SignalScorer and a caller holding a list of signals
InitScorer ==
  /\ scorer_signals \in ScorerLists
  /\ last_call = NoCall
  /\ memo = NoCall
  /\ IndexIdle /\ VelocityIdle /\ DetectorIdle /\ WarningIdle /\ PipelineIdle /\ InsightIdle

SpecScorer == InitScorer /\ [][NextScorer]_vars

\* a CompositeIndexCalculator and a caller holding a list of signals
InitIndex ==
  /\ index_signals \in SeqsUpTo(IndexInputs, MaxIndexSignals)
  /\ indices = NoCall
  /\ overall = NoCall
  /\ prev_indices = NoCall
  /\ appended = NoCall
  /\ ScorerIdle /\ VelocityIdle /\ DetectorIdle /\ WarningIdle /\ PipelineIdle /\ InsightIdle

SpecIndex == InitIndex /\ [][NextIndex]_vars

\* a VelocityTracker over a store holding the hourly rows
InitVelocity ==
  /\ hourly_data \in HourlyInputs
  /\ velocities = NoCall
  /\ ScorerIdle /\ IndexIdle /\ DetectorIdle /\ WarningIdle /\ PipelineIdle /\ InsightIdle

SpecVelocity == InitVelocity /\ [][NextVelocity]_vars

\* a PatternDetector over a store holding the query results
InitDetector ==
  /\ topic_data \in TopicDataInputs
  /\ \E store \in StoreInputs :
       /\ hourly_data = store.hourly
       /\ location_data = store.location
       /\ sentiment_data = store.sentiment
  /\ spikes = NoCall
  /\ prev_spikes = NoCall
  /\ between = {}
  /\ clock \in [now : {0}, step : ClockSteps]
  /\ velocities = NoCall
  /\ ScorerIdle /\ IndexIdle /\ WarningIdle /\ PipelineIdle /\ InsightIdle

SpecDetector == InitDetector /\ [][NextDetector]_vars

\* an EarlyWarningSystem and a caller holding signals and velocities
InitWarnings ==
  /\ warn_signals \in SeqsUpTo(WarnInputs, MaxWarnSignals)
  /\ warn_velocities \in WarnVelocityInputs
  /\ warnings = NoCall
  /\ ScorerIdle /\ IndexIdle /\ VelocityIdle /\ DetectorIdle /\ PipelineIdle /\ InsightIdle

SpecWarnings == InitWarnings /\ [][NextWarnings]_vars

\* an InsightGenerator and a caller holding a list of signals
InitInsights ==
  /\ insight_signals \in SeqsUpTo(WarnInputs, MaxInsightSignals)
  /\ generated_insights = NoCall
  /\ topic_data = <<>>
  /\ spikes = NoCall
  /\ prev_spikes = NoCall
  /\ between = {}
  /\ location_data = <<>>
  /\ sentiment_data = <<>>
  /\ clock \in [now : {0}, step : ClockSteps]
  /\ ScorerIdle /\ IndexIdle /\ VelocityIdle /\ WarningIdle /\ PipelineIdle

SpecInsights == InitInsights /\ [][NextInsights]_vars

\* two engines over one store, neither run started
InitPipeline ==
  /\ \E store \in PipelineStores :
       /\ topic_data = store.topic
       /\ hourly_data = store.hourly
       /\ location_data = store.location
       /\ sentiment_data = store.sentiment
  /\ clock \in [now : {0}, step : ClockSteps]
  /\ spikes = NoCall
  /\ prev_spikes = NoCall
  /\ between = {}
  /\ velocities = NoCall
  /\ PipelineIdle /\ InsightIdle
  /\ ScorerIdle /\ IndexIdle /\ WarningIdle

SpecPipeline == InitPipeline /\ [][NextPipeline]_vars

-----------------------------------------------------------------------------
C2_IndexScoresWithin0To100 ==
  indices # NoCall =>
    \A key \in Categories : indices[key].score >= 0 /\ indices[key].score <= 1000

(* C3 (as claimed): appending a critical signal of confidence 100 that     *)
(* belongs to a category never lowers that category's index score.         *)
C3_AppendCriticalNeverLowers ==
  (appended # NoCall /\ appended.urgency = "critical" /\ appended.confidence_score = 1000) =>
    \A key \in Categories :
      MatchesAny(appended.topic, CategoryTopics[key]) =>
        indices[key].score >= prev_indices[key].score

(* C3 (amended): appending a critical signal of confidence 100 that        *)
(* belongs to a category never lowers the score of economic_stress or      *)
(* weather_impact; it never lowers the score of operational_risk or        *)
(* social_unrest when no signal already in that category has a larger      *)
(* source_count than the appended one.                                     *)
C3_AppendCriticalNeverLowersAmended ==
  (appended # NoCall /\ appended.urgency = "critical" /\ appended.confidence_score = 1000) =>
    LET earlier == SubSeq(index_signals, 1, Len(index_signals) - 1)
        NoLargerCountIn(key) ==
          \A i \in 1..Len(earlier) :
            MatchesAny(earlier[i].topic, CategoryTopics[key])
              => earlier[i].source_count <= appended.source_count
    IN  \A key \in Categories :
          (/\ MatchesAny(appended.topic, CategoryTopics[key])
           /\ \/ key \in {"economic_stress", "weather_impact"}
              \/ NoLargerCountIn(key))
            => indices[key].score >= prev_indices[key].score

\* a critical, confidence-100 operational signal of source_count 100 is
\* appended to a list holding an operational signal, and the index rises
C3_Witness ==
  /\ appended # NoCall
  /\ appended.urgency = "critical"
  /\ appended.confidence_score = 1000
  /\ appended.source_count = 100
  /\ MatchesAny(appended.topic, INFRASTRUCTURE_TOPICS)
  /\ prev_indices.operational_risk.signal_count >= 1
  /\ indices.operational_risk.score > prev_indices.operational_risk.score

(* C4 (as claimed): in every velocity record the trend is the band the     *)
(* breakpoints assign to the record's emitted velocity (> 2 ACCELERATING,  *)
(* > 0.5 GROWING, > -0.5 STABLE, > -2 DECLINING, else FADING).             *)
C4_TrendIsBandOfEmittedVelocity ==
  velocities # NoCall =>
    \A i \in 1..Len(velocities.returned) :
      velocities.returned[i].trend = TrendOf(velocities.returned[i].velocity, 100)

(* C5 (as claimed): for each category index and for the overall risk the   *)
(* emitted level is the threshold band of the emitted score (>= 70         *)
(* CRITICAL, >= 50 HIGH, >= 30 MEDIUM, else LOW).                          *)
C5_LevelIsBandOfEmittedScore ==
  LET BandOf(score) ==
        IF score >= 700 THEN "CRITICAL"
        ELSE IF score >= 500 THEN "HIGH"
        ELSE IF score >= 300 THEN "MEDIUM"
        ELSE "LOW"
  IN  /\ indices # NoCall =>
           \A key \in Categories : indices[key].level = BandOf(indices[key].score)
      /\ overall # NoCall => overall.level = BandOf(overall.overall_score)

(* C6: rank_signals returns every input signal exactly once, paired with   *)
(* its score, in non-increasing score order, signals of equal score in     *)
(* their input order; the ranking of the reversed list has the same        *)
(* sequence of scores.                                                     *)
C6_RankIsStableSortDescending ==
  last_call.op \in {"rank_signals", "rank_both"} =>
    LET ranked == last_call.ranked
        n == Len(scorer_signals)
        ScoresOf(r) == [i \in 1..Len(r) |-> r[i].score]
    IN  /\ Len(ranked) = n
        /\ {ranked[i].idx : i \in 1..n} = 1..n
        /\ \A i \in 1..n :
             /\ ranked[i].signal = scorer_signals[ranked[i].idx]
             /\ ranked[i].score = score_signal(ranked[i].signal)
        /\ \A i, j \in 1..n :
             i < j =>
               /\ ranked[i].score >= ranked[j].score
               /\ ranked[i].score = ranked[j].score => ranked[i].idx < ranked[j].idx
        /\ last_call.op = "rank_both" =>
             ScoresOf(last_call.ranked_reverse) = ScoresOf(ranked)

\* a list of three with one score above two equal ones: ranking it moves
\* the highest forward over an element that stood before it, keeps the tied
\* two in input order, and ranking the reverse orders the tied two the
\* other way round
C6_Witness ==
  /\ last_call.op = "rank_both"
  /\ Len(last_call.ranked) = 3
  /\ last_call.ranked[1].idx # 1
  /\ last_call.ranked[1].score > last_call.ranked[2].score
  /\ last_call.ranked[2].score = last_call.ranked[3].score
  /\ last_call.ranked[2].signal # last_call.ranked[3].signal
  /\ last_call.ranked_reverse[2].signal = last_call.ranked[3].signal

(* C7: the list generate_warnings returns is ordered CRITICAL, HIGH,        *)
(* MEDIUM, LOW: no warning precedes one of strictly higher priority, and   *)
(* warnings of equal priority keep the order in which the rule families    *)
(* generated them (acceleration, correlation, geographic, persistence,     *)
(* cascade; generation order within a family).                             *)
C7_WarningsSortedByPriorityStable ==
  warnings # NoCall =>
    LET rank == [CRITICAL |-> 0, HIGH |-> 1, MEDIUM |-> 2, LOW |-> 3]
        family == [acceleration |-> 1, correlation |-> 2, geographic |-> 3,
                   persistence |-> 4, cascade |-> 5]
        out == warnings.returned
        gen == warnings.generated
        of_priority(p) == SelectSeq(gen, LAMBDA w : w.priority = p)
    IN  /\ \A i, j \in 1..Len(out) :
             i < j => rank[out[i].priority] <= rank[out[j].priority]
        /\ \A i, j \in 1..Len(gen) : i < j => family[gen[i].type] <= family[gen[j].type]
        /\ out = of_priority("CRITICAL") \o of_priority("HIGH")
                   \o of_priority("MEDIUM") \o of_priority("LOW")

\* the sort moved a cascade warning in front of a correlation warning and
\* kept an acceleration warning in front of the cascade warning
C7_Witness ==
  /\ warnings # NoCall
  /\ warnings.returned # warnings.generated
  /\ \E i, j, k \in 1..Len(warnings.returned) :
       /\ i < j /\ j < k
       /\ warnings.returned[i].type = "acceleration"
       /\ warnings.returned[j].type = "cascade"
       /\ warnings.returned[k].type = "correlation"

(* C8: detect_topic_spikes returns, in row order, exactly one spike signal  *)
(* for each row whose count exceeds mean(all counts) x multiplier and none *)
(* for any other row; the signal carries the row's topic and count, and    *)
(* its urgency is critical if the row's urgency is high or count/mean > 3, *)
(* else high if count/mean > 2.5, else medium if count/mean > 2, else low. *)
(* With eleven rows of count 2 and a `fuel prices` row of count 20 and the *)
(* default multiplier, exactly that row yields a spike, urgency critical.  *)
C8_SpikeRule ==
  spikes # NoCall =>
    LET rows == topic_data
        n == Len(rows)
        total == SumSeq([i \in 1..n |-> rows[i].count])
        over(i) == 10 * rows[i].count * n > spikes.threshold_multiplier * total
        place(i) == Cardinality({j \in 1..i : over(j)})
        claimed_urgency(i) ==
          IF rows[i].urgency = "high" \/ rows[i].count * n > 3 * total THEN "critical"
          ELSE IF 2 * rows[i].count * n > 5 * total THEN "high"
          ELSE IF rows[i].count * n > 2 * total THEN "medium"
          ELSE "low"
        out == spikes.returned
    IN  /\ Len(out) = Cardinality({j \in 1..n : over(j)})
        /\ \A i \in 1..n :
             over(i) => /\ out[place(i)].signal_type = "spike"
                        /\ out[place(i)].topic = rows[i].topic
                        /\ out[place(i)].source_count = rows[i].count
                        /\ out[place(i)].urgency = claimed_urgency(i)
        /\ (rows = ScenarioARows /\ spikes.threshold_multiplier = 20) =>
             /\ Len(out) = 1
             /\ out[1].topic = "fuel prices"
             /\ out[1].urgency = "critical"

\* the scenario rows were examined with the default multiplier and the one
\* spike came out critical
C8_Witness ==
  /\ spikes # NoCall
  /\ topic_data = ScenarioARows
  /\ spikes.threshold_multiplier = 20
  /\ Len(spikes.returned) = 1
  /\ spikes.returned[1].urgency = "critical"
  /\ spikes.returned[1].metadata.inherent_urgency = "medium"

C10_CorrelationRule ==
  warnings # NoCall =>
    LET matching(keywords) ==
          {i \in 1..Len(warn_signals) : MatchesAny(warn_signals[i].topic, keywords)}
        out == warnings.returned
        correlation == {i \in 1..Len(out) : out[i].type = "correlation"}
        of_cluster(name) == {i \in correlation : out[i].topic = name}
        economic == matching(economic_topics)
        infra == matching(infra_topics)
    IN  /\ correlation = of_cluster("economic_cluster") \cup of_cluster("infrastructure_cluster")
        /\ Cardinality(of_cluster("economic_cluster")) =
             (IF Cardinality(economic) >= 2 THEN 1 ELSE 0)
        /\ Cardinality(of_cluster("infrastructure_cluster")) =
             (IF Cardinality(infra) >= 2 THEN 1 ELSE 0)
        /\ \A i \in of_cluster("economic_cluster") :
             out[i].priority =
               (IF \E k \in economic : warn_signals[k].urgency \in {"high", "critical"}
                  THEN "HIGH" ELSE "MEDIUM")
        /\ \A i \in of_cluster("infrastructure_cluster") : out[i].priority = "HIGH"
        /\ ( /\ Len(warn_signals) = 2
             /\ {<<warn_signals[k].topic, warn_signals[k].urgency>> : k \in 1..2}
                  = {<<"fuel prices", "high">>, <<"inflation", "high">>} )
             => /\ Cardinality(correlation) = 1
                /\ \A i \in correlation : out[i].priority = "HIGH"
        /\ (Len(warn_signals) = 1 /\ warn_signals[1].topic = "power cut")
             => correlation = {}

\* two economic signals without a high or critical one gave the one MEDIUM
\* economic warning, and no infrastructure warning
C10_Witness ==
  /\ warnings # NoCall
  /\ Len(warn_signals) >= 2
  /\ \A k \in 1..Len(warn_signals) :
       MatchesAny(warn_signals[k].topic, economic_topics) => warn_signals[k].urgency = "medium"
  /\ \E i \in 1..Len(warnings.returned) :
       /\ warnings.returned[i].topic = "economic_cluster"
       /\ warnings.returned[i].priority = "MEDIUM"
  /\ \A i \in 1..Len(warnings.returned) :
       warnings.returned[i].topic # "infrastructure_cluster"

(* C11 (as claimed): the emitted overall risk score equals 0.35 x          *)
(* economic_stress + 0.35 x operational_risk + 0.15 x weather_impact +     *)
(* 0.15 x social_unrest of the four emitted category scores of the same    *)
(* list; for category scores 80, 60, 0, 0 it is 49.0 and the level MEDIUM. *)
C11_OverallEqualsWeightedSum ==
  overall # NoCall =>
    LET c == overall.component_scores
        weighted == 35 * c.economic_stress + 35 * c.operational_risk
                      + 15 * c.weather_impact + 15 * c.social_unrest
    IN  /\ indices # NoCall => \A key \in Categories : c[key] = indices[key].score
        /\ 100 * overall.overall_score = weighted
        /\ (c.economic_stress = 800 /\ c.operational_risk = 600
              /\ c.weather_impact = 0 /\ c.social_unrest = 0)
             => overall.overall_score = 490 /\ overall.level = "MEDIUM"

(* C11 (amended): the emitted overall risk score is that weighted sum of   *)
(* the four emitted category scores of the same list, rounded to one       *)
(* decimal place (a multiple of 0.1 at most 0.05 away from the sum); for   *)
(* category scores 80, 60, 0, 0 it is 49.0 and the level is MEDIUM.        *)
C11_OverallIsRoundedWeightedSum ==
  overall # NoCall =>
    LET c == overall.component_scores
        weighted == 35 * c.economic_stress + 35 * c.operational_risk
                      + 15 * c.weather_impact + 15 * c.social_unrest
    IN  /\ indices # NoCall => \A key \in Categories : c[key] = indices[key].score
        /\ 100 * overall.overall_score - weighted <= 50
        /\ weighted - 100 * overall.overall_score <= 50
        /\ (c.economic_stress = 800 /\ c.operational_risk = 600
              /\ c.weather_impact = 0 /\ c.social_unrest = 0)
             => overall.overall_score = 490 /\ overall.level = "MEDIUM"

\* the overall risk of a list whose category scores are 80, 60, 0, 0, next
\* to the indices calculated for the same list
C11_Witness ==
  /\ overall # NoCall
  /\ indices # NoCall
  /\ indices.economic_stress.score = 800
  /\ indices.operational_risk.score = 600
  /\ indices.weather_impact.score = 0
  /\ indices.social_unrest.score = 0
  /\ overall.overall_score = 490
  /\ overall.level = "MEDIUM"

(* C12: every topic with n >= 3 hourly buckets gets one velocity record   *)
(* whose rate is (mean(recent) - mean(older)) / (n / 2), older being the   *)
(* first floor(n/2) buckets and recent the rest, emitted to two decimals;  *)
(* six `power cut` buckets with older mean 2 and recent mean 6 give 1.33   *)
(* and GROWING.                                                            *)
C12_VelocityRate ==
  velocities # NoCall =>
    LET data == hourly_data
        returned == velocities.returned
        BucketsOf(topic) ==
          LET rows == SelectSeq(data, LAMBDA row : row.topic = topic)
          IN  [i \in 1..Len(rows) |-> rows[i].count]
        \* the rate of n buckets as the fraction num / den
        RateOf(counts) ==
          LET n == Len(counts)
              k == n \div 2
              sum_older == SumSeq(SubSeq(counts, 1, k))
              sum_recent == SumSeq(SubSeq(counts, k + 1, n))
          IN  [num |-> 2 * (sum_recent * k - sum_older * (n - k)),
               den |-> k * (n - k) * n,
               older10 |-> 10 * sum_older, k |-> k]
    IN  /\ \A i \in 1..Len(data) :
             Len(BucketsOf(data[i].topic)) >= 3 =>
               Cardinality({j \in 1..Len(returned) :
                              returned[j].topic = data[i].topic}) = 1
        /\ \A j \in 1..Len(returned) :
             LET counts == BucketsOf(returned[j].topic)
                 rate == RateOf(counts)
                 off == returned[j].velocity * rate.den - 100 * rate.num
             IN  /\ Len(counts) >= 3
                 /\ 2 * off <= rate.den
                 /\ -2 * off <= rate.den
                 /\ (returned[j].topic = "power cut" /\ Len(counts) = 6
                       /\ rate.older10 = 20 * rate.k
                       /\ SumSeq(counts) * 10 - rate.older10 = 60 * (6 - rate.k))
                      => returned[j].velocity = 133 /\ returned[j].trend = "GROWING"

\* the `power cut` record of the six-bucket series, emitted after a topic
\* that is too short to get a record
C12_Witness ==
  /\ velocities # NoCall
  /\ Len(hourly_data) = 8
  /\ hourly_data[1].topic = "inflation"
  /\ Len(velocities.returned) = 1
  /\ velocities.returned[1].topic = "power cut"
  /\ velocities.returned[1].data_points = 6
  /\ velocities.returned[1].older_avg = 20
  /\ velocities.returned[1].recent_avg = 60
  /\ velocities.returned[1].velocity = 133
  /\ velocities.returned[1].trend = "GROWING"

(* C13: the classification gives every rate exactly one of five bands:   *)
(* rate > 2 ACCELERATING, 0.5 < rate <= 2 GROWING, -0.5 < rate <= 0.5      *)
(* STABLE, -2 < rate <= -0.5 DECLINING, rate <= -2 FADING.                 *)
C13_RateHasExactlyOneBand ==
  velocities # NoCall =>
    \A j \in 1..Len(velocities.returned) :
      LET record == velocities.returned[j]
          rows == SelectSeq(hourly_data, LAMBDA row : row.topic = record.topic)
          n == Len(rows)
          k == n \div 2
          sum_older == SumSeq([i \in 1..k |-> rows[i].count])
          sum_recent == SumSeq([i \in 1..(n - k) |-> rows[k + i].count])
          \* rate = num / den with den > 0
          num == 2 * (sum_recent * k - sum_older * (n - k))
          den == k * (n - k) * n
          bands == [ACCELERATING |-> num > 2 * den,
                    GROWING |-> 2 * num > den /\ num <= 2 * den,
                    STABLE |-> 2 * num > -den /\ 2 * num <= den,
                    DECLINING |-> num > -2 * den /\ 2 * num <= -den,
                    FADING |-> num <= -2 * den]
      IN  /\ den > 0
          /\ record.trend \in DOMAIN bands
          /\ \A band \in DOMAIN bands : bands[band] <=> band = record.trend

\* a rate of exactly 2 (buckets 1, 1, 5, 5), classified GROWING
C13_Witness ==
  /\ velocities # NoCall
  /\ Len(hourly_data) = 4
  /\ [i \in 1..4 |-> hourly_data[i].count] = <<1, 1, 5, 5>>
  /\ Len(velocities.returned) = 1
  /\ velocities.returned[1].velocity = 200
  /\ velocities.returned[1].trend = "GROWING"

(* C14: every Signal emitted by the spike, trend, hotspot and sentiment   *)
(* detectors has a confidence within [0, 100] and last_seen >= first_seen, *)
(* whatever the queries return and however far the clock moves forward     *)
(* between readings; a spike's confidence is min(95, 70 + 5 x count/mean). *)
C14_SignalsWellFormed ==
  LET n == Len(topic_data)
      total == SumSeq([i \in 1..n |-> topic_data[i].count])
      calls == {call \in {spikes, prev_spikes} : call # NoCall} \cup between
      emitted == UNION {{call.returned[i] : i \in 1..Len(call.returned)} : call \in calls}
      \* min(95, 70 + 5 x count / mean) x total, in tenths
      claimed(sig) ==
        IF 700 * total + 50 * sig.source_count * n < 950 * total
          THEN 700 * total + 50 * sig.source_count * n
          ELSE 950 * total
  IN  \A sig \in emitted :
        /\ sig.signal_type \in {"spike", "trend", "geographic_hotspot", "sentiment_shift"}
        /\ sig.confidence_score >= 0
        /\ sig.confidence_score <= 1000
        /\ sig.last_seen >= sig.first_seen
        /\ sig.signal_type = "spike" =>
             /\ 2 * (sig.confidence_score * total - claimed(sig)) <= total
             /\ 2 * (claimed(sig) - sig.confidence_score * total) <= total

\* all four detectors have emitted signals on a moving clock, one of them
\* a spike at the cap of 95
C14_Witness ==
  /\ clock.step = 1
  /\ spikes # NoCall
  /\ \E i \in 1..Len(spikes.returned) : spikes.returned[i].confidence_score = 950
  /\ \A i \in 1..Len(spikes.returned) :
       spikes.returned[i].last_seen > spikes.returned[i].first_seen + DefaultHours
  /\ {b.detector : b \in between} = OtherDetectors
  /\ \A b \in between : b.returned # <<>>

(* C15: when its query returns no rows, detect_topic_spikes and           *)
(* detect_trending_topics return an empty list and                         *)
(* calculate_topic_velocity an empty map, and the run goes on; a topic     *)
(* with fewer than 3 hourly buckets gets no trend signal and no velocity   *)
(* record, and the other topics of the same result are still processed.    *)
C15_InsufficientDataIsNoError ==
  \A r \in Runs :
    LET run == pipeline[r]
        finished == DOMAIN run.results
        BucketsOf(topic) ==
          Cardinality({i \in 1..Len(hourly_data) : hourly_data[i].topic = topic})
        topics == {hourly_data[i].topic : i \in 1..Len(hourly_data)}
        TopicsIn(list) == {list[i].topic : i \in 1..Len(list)}
        \* the last three buckets of a topic and the ones before them
        CountsOfTopic(topic) ==
          LET rows == SelectSeq(hourly_data, LAMBDA row : row.topic = topic)
          IN  [i \in 1..Len(rows) |-> rows[i].count]
        Rising(topic) ==
          LET counts == CountsOfTopic(topic)
              n == Len(counts)
              recent3 == counts[n] + counts[n - 1] + counts[n - 2]
          IN  IF n = 3 THEN recent3 * 2 > 9 * counts[1]
              ELSE recent3 * 2 * (n - 3) > 9 * SumSeq(SubSeq(counts, 1, n - 3))
    IN  /\ ("detect_topic_spikes" \in finished /\ topic_data = <<>>)
             => run.results["detect_topic_spikes"] = <<>>
        /\ "detect_trending_topics" \in finished =>
             LET trends == run.results["detect_trending_topics"]
             IN  /\ hourly_data = <<>> => trends = <<>>
                 /\ \A t \in topics : BucketsOf(t) < 3 => t \notin TopicsIn(trends)
                 /\ \A t \in topics : (BucketsOf(t) >= 3 /\ Rising(t)) => t \in TopicsIn(trends)
        /\ "calculate_topic_velocity" \in finished =>
             LET records == run.results["calculate_topic_velocity"]
             IN  /\ hourly_data = <<>> => records = <<>>
                 /\ \A t \in topics : BucketsOf(t) < 3 <=> t \notin TopicsIn(records)
        \* a run ends with an exception only where a query or an INSERT raised
        /\ run.status = "raised" =>
             run.raised_in \in QueryStages \cup {"_store_signals", "_store_insights"}
        /\ (run.status = "returned" /\ hourly_data = <<>> /\ topic_data = <<>>) =>
             /\ run.results["generate_insights"] = <<>>
             /\ stored.signals = <<>>

\* a run over the busy store, whose hourly rows begin and end with a topic
\* of two buckets, has the trend signals and the velocity records of the
\* two topics in between
C15_Witness ==
  LET run == pipeline["first"]
  IN  /\ "calculate_topic_velocity" \in DOMAIN run.results
      /\ hourly_data # <<>>
      /\ hourly_data[1].topic = "cultural festival"
      /\ hourly_data[Len(hourly_data)].topic = "protest"
      /\ Len(run.results["detect_trending_topics"]) = 2
      /\ Len(run.results["calculate_topic_velocity"]) = 2
      /\ [i \in 1..2 |-> run.results["detect_trending_topics"][i].topic]
           = <<"flood warning", "fuel prices">>
      /\ [i \in 1..2 |-> run.results["calculate_topic_velocity"][i].topic]
           = <<"flood warning", "fuel prices">>

(* C16: when the query of a detector or of the velocity tracker raises,   *)
(* the run ends with the exception: the query was issued once and is the   *)
(* last one issued, exactly the calls before it have finished and none     *)
(* after it, and no signal or insight of the run is in the store.          *)
C16_QueryFailureIsFatal ==
  \A r \in Runs :
    LET run == pipeline[r]
        failed == run.raised_in
        order == Stages(run.method)
        place == CHOOSE k \in 1..Len(order) : order[k] = failed
    IN  failed \in QueryStages =>
          /\ run.status = "raised"
          /\ Cardinality({i \in 1..Len(run.issued) : run.issued[i] = failed}) = 1
          /\ run.issued[Len(run.issued)] = failed
          /\ run.done = SubSeq(order, 1, place - 1)
          /\ DOMAIN run.results = {order[k] : k \in 1..(place - 1)}
          /\ \A i \in 1..Len(stored.signals) : stored.signals[i].run # r
          /\ \A i \in 1..Len(stored.insights) : stored.insights[i].run # r

\* the velocity query of one run raised after its detection, scoring and
\* indices, while the other run stored its signals and insights
C16_Witness ==
  /\ pipeline["first"].raised_in = "calculate_topic_velocity"
  /\ pipeline["first"].status = "raised"
  /\ Len(pipeline["first"].done) = 6
  /\ pipeline["second"].status = "returned"
  /\ stored.signals # <<>>
  /\ stored.insights # <<>>

(* C17 (as claimed): the calls of a run finish in the order detection and *)
(* velocity tracking, then scoring, then composite indices and early       *)
(* warnings, then insight generation, so that velocity tracking has        *)
(* finished before scoring begins and before the warnings are generated.   *)
C17_VelocityBeforeScoring ==
  \A r \in Runs :
    LET done == pipeline[r].done
        step(stage) ==
          CASE stage \in {Detectors[k] : k \in 1..Len(Detectors)} -> 1
            [] stage = "calculate_topic_velocity" -> 1
            [] stage = "rank_signals" -> 2
            [] stage \in {"calculate_all_indices", "generate_warnings"} -> 3
            [] stage = "generate_insights" -> 4
            [] OTHER -> 5
        finished == {done[i] : i \in 1..Len(done)}
    IN  /\ \A i, j \in 1..Len(done) : i < j => step(done[i]) <= step(done[j])
        /\ (pipeline[r].method = "run_enhanced_analysis" /\ "rank_signals" \in finished)
             => "calculate_topic_velocity" \in finished
        /\ "generate_warnings" \in finished => "calculate_topic_velocity" \in finished

(* C17 (amended): the calls of a run finish one at a time in the order     *)
(* detection, scoring, composite indices, velocity tracking, early         *)
(* warnings, insight generation, storing; velocity tracking has finished   *)
(* before the warnings are generated, and starts only after scoring and    *)
(* the composite indices have finished.                                    *)
C17_StagesInProgramOrder ==
  \A r \in Runs :
    LET done == pipeline[r].done
        step(stage) ==
          CASE stage \in {Detectors[k] : k \in 1..Len(Detectors)} -> 1
            [] stage = "rank_signals" -> 2
            [] stage = "calculate_all_indices" -> 3
            [] stage = "calculate_topic_velocity" -> 4
            [] stage = "generate_warnings" -> 5
            [] stage = "generate_insights" -> 6
            [] OTHER -> 7
        finished == {done[i] : i \in 1..Len(done)}
    IN  /\ \A i, j \in 1..Len(done) : i < j => step(done[i]) <= step(done[j])
        /\ \A i, j \in 1..Len(done) : i < j => done[i] # done[j]
        /\ "generate_warnings" \in finished => "calculate_topic_velocity" \in finished
        /\ "calculate_topic_velocity" \in finished
             => {"rank_signals", "calculate_all_indices"} \subseteq finished
        /\ "rank_signals" \in finished
             => {Detectors[k] : k \in 1..Len(Detectors)} \subseteq finished

\* an enhanced run has scored its signals and calculated the indices, and
\* has not yet tracked any velocity
C17_Witness ==
  /\ pipeline["first"].method = "run_enhanced_analysis"
  /\ pipeline["first"].status = "running"
  /\ pipeline["first"].done = Detectors \o <<"rank_signals", "calculate_all_indices">>
  /\ pipeline["first"].results["rank_signals"].ranked_signals # <<>>
  /\ "calculate_topic_velocity" \notin DOMAIN pipeline["first"].results

(* C18: whatever the other run has done so far, every result a run       *)
(* obtains (signals and insights up to their timestamps, ranked order,     *)
(* indices, overall risk, velocities, warnings) is the result the run has  *)
(* when it runs alone on the same store contents, and no result a run has  *)
(* obtained changes afterwards.                                            *)
C18_RunsShareNoMutableState ==
  [][LET Unstamped(sig) == [f \in DOMAIN sig \ {"first_seen", "last_seen"} |-> sig[f]]
         UnstampedAll(signals) == [i \in 1..Len(signals) |-> Unstamped(signals[i])]
         UnstampedInsight(insight) ==
           [f \in DOMAIN insight \ {"created_at", "valid_until"} |->
              IF f = "supporting_signals" THEN UnstampedAll(insight[f]) ELSE insight[f]]
         \* the results of a run that has the store to itself
         alone_signals ==
           detect_topic_spikes(topic_data, 20) \o detect_trending_topics(hourly_data)
             \o detect_geographic_hotspots(location_data)
             \o detect_sentiment_shifts(sentiment_data)
         alone_priority == get_priority_signals(alone_signals, 15)
         SameAsAlone(stage, result) ==
           CASE stage = "detect_topic_spikes" ->
                  UnstampedAll(result) = detect_topic_spikes(topic_data, 20)
             [] stage = "detect_trending_topics" ->
                  UnstampedAll(result) = detect_trending_topics(hourly_data)
             [] stage = "detect_geographic_hotspots" ->
                  UnstampedAll(result) = detect_geographic_hotspots(location_data)
             [] stage = "detect_sentiment_shifts" ->
                  UnstampedAll(result) = detect_sentiment_shifts(sentiment_data)
             [] stage = "rank_signals" ->
                  /\ [i \in 1..Len(result.ranked_signals) |->
                        [result.ranked_signals[i] EXCEPT !.signal = Unstamped(@)]]
                       = rank_signals(alone_signals)
                  /\ UnstampedAll(result.priority_signals) = alone_priority
             [] stage = "calculate_all_indices" ->
                  /\ result.indices = calculate_all_indices(alone_signals)
                  /\ result.overall_risk \in get_overall_business_risk_score(alone_signals)
             [] stage = "calculate_topic_velocity" ->
                  result = calculate_topic_velocity(hourly_data)
             [] stage = "generate_warnings" ->
                  result = generate_warnings(alone_priority,
                                             calculate_topic_velocity(hourly_data))
             [] stage = "generate_insights" ->
                  [i \in 1..Len(result) |-> UnstampedInsight(result[i])]
                    = generate_insights(alone_priority)
             [] stage = "_store_signals" -> result = Len(alone_signals)
             [] stage = "_store_insights" -> result = Len(generate_insights(alone_priority))
     IN  \A r \in Runs :
           /\ \A stage \in DOMAIN pipeline[r].results :
                /\ stage \in DOMAIN pipeline'[r].results
                /\ pipeline'[r].results[stage] = pipeline[r].results[stage]
           /\ \A stage \in DOMAIN pipeline'[r].results \ DOMAIN pipeline[r].results :
                SameAsAlone(stage, pipeline'[r].results[stage])]_vars

\* both runs have returned with signals, warnings and insights; the second
\* detected its spikes after the first had stored its rows, on a clock that
\* moved in between
C18_Witness ==
  /\ pipeline["first"].status = "returned"
  /\ pipeline["second"].status = "returned"
  /\ pipeline["first"].method = "run_enhanced_analysis"
  /\ pipeline["second"].method = "run_enhanced_analysis"
  /\ clock.step = 1
  /\ pipeline["first"].results["generate_warnings"] # <<>>
  /\ pipeline["second"].results["generate_insights"] # <<>>
  /\ stored.insights[1].run = "first"
  /\ pipeline["second"].results["detect_topic_spikes"][1].last_seen
       > stored.insights[1].signal.created_at

(* C19: generate_warnings emits exactly one MEDIUM persistence warning for *)
(* each topic whose source_count summed over all input signals of the      *)
(* topic exceeds 50, and none for a topic whose sum is 50 or less; the     *)
(* warning's urgency is the maximum urgency observed among the topic's     *)
(* signals under the order low < medium < high < critical.                 *)
C19_PersistenceRule ==
  warnings # NoCall =>
    LET out == warnings.returned
        persistence == {i \in 1..Len(out) : out[i].type = "persistence"}
        of_topic(topic) == {i \in persistence : out[i].topic = topic}
        topics == {warn_signals[k].topic : k \in 1..Len(warn_signals)}
        severity == [low |-> 1, medium |-> 2, high |-> 3, critical |-> 4]
        observed(topic) ==
          {warn_signals[k].urgency :
             k \in {j \in 1..Len(warn_signals) : warn_signals[j].topic = topic}}
    IN  /\ \A i \in persistence : out[i].topic \in topics
        /\ \A topic \in topics :
             Cardinality(of_topic(topic)) =
               (IF topic_volume(warn_signals, topic) > 50 THEN 1 ELSE 0)
        /\ \A i \in persistence :
             /\ out[i].priority = "MEDIUM"
             /\ out[i].current_urgency \in observed(out[i].topic)
             /\ \A u \in observed(out[i].topic) :
                  severity[u] <= severity[out[i].current_urgency]

(* C20 (as claimed): for each topic with at least 3 hourly buckets,        *)
(* detect_trending_topics takes recent = the last 3 buckets and older =    *)
(* all buckets before the last 3, and emits exactly one trend Signal for   *)
(* the topic iff mean(recent) > 1.5 x mean(older); the signal's velocity   *)
(* metadata equals (recent_avg - older_avg) / bucket_count.  No trend      *)
(* signal is emitted for any other topic.                                  *)
C20_TrendRuleOlderBeforeLastThree ==
  \A b \in between :
    b.detector = "detect_trending_topics" =>
      LET out == b.returned
          trends == {i \in 1..Len(out) : out[i].signal_type = "trend"}
          of_topic(topic) == {i \in trends : out[i].topic = topic}
          topics == {hourly_data[k].topic : k \in 1..Len(hourly_data)}
          counts(topic) == hourly_counts(hourly_data, topic)
          recent(topic) == SubSeq(counts(topic), Len(counts(topic)) - 2, Len(counts(topic)))
          older(topic) == SubSeq(counts(topic), 1, Len(counts(topic)) - 3)
          \* mean(recent) > 1.5 x mean(older), for the older buckets there are
          rising(topic) ==
            /\ Len(counts(topic)) >= 3
            /\ older(topic) # <<>>
            /\ 2 * SumSeq(recent(topic)) * Len(older(topic)) > 9 * SumSeq(older(topic))
      IN  /\ Len(out) = Cardinality(trends)
          /\ \A i \in trends : out[i].topic \in topics
          /\ \A topic \in topics :
               Cardinality(of_topic(topic)) = (IF rising(topic) THEN 1 ELSE 0)
          /\ \A i \in trends :
               LET topic == out[i].topic
                   velocity == out[i].metadata.velocity
               IN  rising(topic) =>
                     velocity[1] * (3 * Len(older(topic)) * Len(counts(topic)))
                       = (SumSeq(recent(topic)) * Len(older(topic)) - 3 * SumSeq(older(topic)))
                           * velocity[2]

(* C20: for each topic with at least 3 hourly buckets,                     *)
(* detect_trending_topics takes recent = the last 3 buckets and older =    *)
(* all buckets before the last 3 when there are more than 3, the first     *)
(* bucket alone when there are exactly 3, and emits exactly one trend      *)
(* Signal for the topic iff mean(recent) > 1.5 x mean(older); the signal's *)
(* velocity metadata equals (recent_avg - older_avg) / bucket_count.  No   *)
(* trend signal is emitted for any other topic.                            *)
C20_TrendRule ==
  \A b \in between :
    b.detector = "detect_trending_topics" =>
      LET out == b.returned
          trends == {i \in 1..Len(out) : out[i].signal_type = "trend"}
          of_topic(topic) == {i \in trends : out[i].topic = topic}
          topics == {hourly_data[k].topic : k \in 1..Len(hourly_data)}
          counts(topic) == hourly_counts(hourly_data, topic)
          recent(topic) == SubSeq(counts(topic), Len(counts(topic)) - 2, Len(counts(topic)))
          older(topic) ==
            IF Len(counts(topic)) > 3
              THEN SubSeq(counts(topic), 1, Len(counts(topic)) - 3)
              ELSE SubSeq(counts(topic), 1, 1)
          \* mean(recent) > 1.5 x mean(older), for the older buckets there are
          rising(topic) ==
            /\ Len(counts(topic)) >= 3
            /\ older(topic) # <<>>
            /\ 2 * SumSeq(recent(topic)) * Len(older(topic)) > 9 * SumSeq(older(topic))
      IN  /\ Len(out) = Cardinality(trends)
          /\ \A i \in trends : out[i].topic \in topics
          /\ \A topic \in topics :
               Cardinality(of_topic(topic)) = (IF rising(topic) THEN 1 ELSE 0)
          /\ \A i \in trends :
               LET topic == out[i].topic
                   velocity == out[i].metadata.velocity
               IN  rising(topic) =>
                     velocity[1] * (3 * Len(older(topic)) * Len(counts(topic)))
                       = (SumSeq(recent(topic)) * Len(older(topic)) - 3 * SumSeq(older(topic)))
                           * velocity[2]

\* over a store with three-bucket topics, a topic at the 1.5 ratio and a
\* two-bucket topic, the trend detector returned a signal for the rising
\* three-bucket topic and one for the rising five-bucket topic, and no other
C20_Witness ==
  \E b \in between :
    /\ b.detector = "detect_trending_topics"
    /\ {hourly_data[k].topic : k \in 1..Len(hourly_data)}
         = {"fuel prices", "inflation", "monsoon rain", "power cut", "protest"}
    /\ Len(hourly_counts(hourly_data, "inflation")) = 3
    /\ Len(hourly_counts(hourly_data, "monsoon rain")) = 5
    /\ Len(b.returned) = 2
    /\ b.returned[1].topic = "inflation"
    /\ b.returned[1].metadata.velocity[1] > 0
    /\ b.returned[2].topic = "monsoon rain"

(* C21: generate_warnings emits one acceleration warning for each input    *)
(* signal whose urgency is high or critical and whose topic has a velocity *)
(* record with trend ACCELERATING or GROWING, and no acceleration warning  *)
(* for any other signal; each such warning has priority CRITICAL or HIGH   *)
(* and a predicted rate equal to recent_avg + rate x 6 of that topic's     *)
(* velocity record (in hundredths: 10 x recent_avg + 6 x rate).            *)
C21_AccelerationRule ==
  warnings # NoCall =>
    LET out == warnings.returned
        acceleration == {i \in 1..Len(out) : out[i].type = "acceleration"}
        records(topic) ==
          {j \in 1..Len(warn_velocities) : warn_velocities[j].topic = topic}
        qualifies(k) ==
          /\ warn_signals[k].urgency \in {"high", "critical"}
          /\ \E j \in records(warn_signals[k].topic) :
               warn_velocities[j].trend \in {"ACCELERATING", "GROWING"}
        qualifying == {k \in 1..Len(warn_signals) : qualifies(k)}
        about(topic, urgency) ==
          {i \in acceleration : out[i].topic = topic /\ out[i].current_urgency = urgency}
        from(topic, urgency) ==
          {k \in qualifying : warn_signals[k].topic = topic /\ warn_signals[k].urgency = urgency}
    IN  /\ Cardinality(acceleration) = Cardinality(qualifying)
        /\ \A k \in 1..Len(warn_signals) :
             Cardinality(about(warn_signals[k].topic, warn_signals[k].urgency))
               = Cardinality(from(warn_signals[k].topic, warn_signals[k].urgency))
        /\ \A i \in acceleration :
             /\ out[i].priority \in {"CRITICAL", "HIGH"}
             /\ \E j \in records(out[i].topic) :
                  out[i].metadata.predicted_rate
                    = 10 * warn_velocities[j].recent_avg + 6 * warn_velocities[j].velocity

\* a high signal of an accelerating topic, a medium signal of the same topic
\* and a high signal of a fading topic gave exactly one acceleration warning
C21_Witness ==
  /\ warnings # NoCall
  /\ Len(warn_signals) = 3
  /\ {<<warn_signals[k].topic, warn_signals[k].urgency>> : k \in 1..3}
       = {<<"inflation", "high">>, <<"inflation", "medium">>, <<"fuel prices", "high">>}
  /\ \E j \in 1..Len(warn_velocities) :
       warn_velocities[j].topic = "inflation" /\ warn_velocities[j].trend = "ACCELERATING"
  /\ \E j \in 1..Len(warn_velocities) :
       warn_velocities[j].topic = "fuel prices" /\ warn_velocities[j].trend = "FADING"
  /\ Cardinality({i \in 1..Len(warnings.returned) :
                    warnings.returned[i].type = "acceleration"}) = 1
  /\ \E i \in 1..Len(warnings.returned) :
       /\ warnings.returned[i].type = "acceleration"
       /\ warnings.returned[i].topic = "inflation"
       /\ warnings.returned[i].metadata.predicted_rate > 0

(* C22: for each of the three fixed trigger -> effect chains,              *)
(* generate_warnings emits exactly one CRITICAL cascade warning iff at     *)
(* least one input signal's topic contains a trigger keyword of the chain  *)
(* and at least one input signal's topic contains an effect keyword of the *)
(* chain; otherwise it emits no warning for that chain.  At most three     *)
(* cascade warnings are emitted per call.                                  *)
C22_CascadeRule ==
  warnings # NoCall =>
    LET out == warnings.returned
        cascade == {i \in 1..Len(out) : out[i].type = "cascade"}
        of_chain(name) == {i \in cascade : out[i].topic = name}
        present(keywords) ==
          \E k \in 1..Len(warn_signals) : MatchesAny(warn_signals[k].topic, keywords)
        fires(trigger, effects) == present(trigger) /\ present(effects)
        expected(name) ==
          CASE name = "economic_cascade" ->
                 fires(<<"fuel prices", "rupee exchange rate">>,
                       <<"inflation", "cost", "transport">>)
            [] name = "weather_cascade" ->
                 fires(<<"flood warning", "monsoon rain">>,
                       <<"road conditions", "power cut", "water shortage">>)
            [] name = "infrastructure_cascade" ->
                 fires(<<"power cut">>, <<"water shortage", "public transport">>)
        names == {"economic_cascade", "weather_cascade", "infrastructure_cascade"}
    IN  /\ \A i \in cascade : out[i].topic \in names /\ out[i].priority = "CRITICAL"
        /\ \A name \in names :
             Cardinality(of_chain(name)) = (IF expected(name) THEN 1 ELSE 0)
        /\ Cardinality(cascade) <= 3

\* `fuel prices` and `public transport` (an effect through `transport`) with
\* `power cut` gave the economic and the infrastructure cascade warning and
\* no weather one, its trigger being absent
C22_Witness ==
  /\ warnings # NoCall
  /\ {warn_signals[k].topic : k \in 1..Len(warn_signals)}
       = {"fuel prices", "public transport", "power cut"}
  /\ {warnings.returned[i].topic :
        i \in {j \in 1..Len(warnings.returned) : warnings.returned[j].type = "cascade"}}
       = {"economic_cascade", "infrastructure_cascade"}

(* C23: grouping the input signals by their `location` metadata value,     *)
(* generate_warnings emits exactly one HIGH geographic warning for each    *)
(* location that has at least 3 signals of which at least 2 have urgency   *)
(* high or critical, and none for any other location or for signals        *)
(* without a location.                                                     *)
C23_GeographicRule ==
  warnings # NoCall =>
    LET out == warnings.returned
        geographic == {i \in 1..Len(out) : out[i].type = "geographic"}
        located == {k \in 1..Len(warn_signals) : "location" \in DOMAIN warn_signals[k].metadata}
        at(location) == {k \in located : warn_signals[k].metadata.location = location}
        urgent_at(location) ==
          {k \in at(location) : warn_signals[k].urgency \in {"high", "critical"}}
        locations == {warn_signals[k].metadata.location : k \in located}
        hot == {location \in locations :
                  Cardinality(at(location)) >= 3 /\ Cardinality(urgent_at(location)) >= 2}
        about(location) == {i \in geographic : out[i].metadata.location = location}
    IN  /\ \A i \in geographic :
             out[i].priority = "HIGH" /\ out[i].metadata.location \in hot
        /\ \A location \in locations :
             Cardinality(about(location)) = (IF location \in hot THEN 1 ELSE 0)
        /\ Cardinality(geographic) = Cardinality(hot)

\* three signals located in Colombo, exactly two of them high, gave the one
\* geographic warning
C23_Witness ==
  /\ warnings # NoCall
  /\ Len(warn_signals) = 3
  /\ \A k \in 1..3 :
       /\ "location" \in DOMAIN warn_signals[k].metadata
       /\ warn_signals[k].metadata.location = "Colombo"
  /\ Cardinality({k \in 1..3 : warn_signals[k].urgency = "high"}) = 2
  /\ Cardinality({i \in 1..Len(warnings.returned) :
                    warnings.returned[i].type = "geographic"}) = 1
  /\ \E i \in 1..Len(warnings.returned) :
       /\ warnings.returned[i].type = "geographic"
       /\ warnings.returned[i].metadata.high_urgency_count = 2

C25_ValidUntilIsCreatedAtPlusWindow ==
  generated_insights # NoCall =>
    \A i \in 1..Len(generated_insights.returned) :
      LET insight == generated_insights.returned[i]
          window == CASE insight.insight_type = "operational_risk" -> 48
                      [] insight.insight_type = "situational_awareness" -> 24
                      [] insight.insight_type = "economic_pressure" -> 7 * 24
                      [] insight.insight_type = "infrastructure_stress" -> 3 * 24
      IN  insight.valid_until = insight.created_at + window

(* C29: every operational_risk Insight emitted by generate_insights has    *)
(* severity critical: the severity warning is never assigned to an         *)
(* operational_risk Insight for any input signal list, so severity warning *)
(* appears only on the two cross-topic Insights.                           *)
C29_OperationalRiskIsCritical ==
  generated_insights # NoCall =>
    \A i \in 1..Len(generated_insights.returned) :
      LET insight == generated_insights.returned[i]
      IN  /\ insight.insight_type = "operational_risk" => insight.severity = "critical"
          /\ insight.severity = "warning" =>
               insight.insight_type \in {"economic_pressure", "infrastructure_stress"}

\* a topic with a high and a medium signal got an operational_risk insight
\* of severity critical, and the cross-topic insight has severity warning
C29_Witness ==
  /\ generated_insights # NoCall
  /\ Len(insight_signals) = 2
  /\ insight_signals[1].topic = insight_signals[2].topic
  /\ {insight_signals[1].urgency, insight_signals[2].urgency} = {"high", "medium"}
  /\ Len(generated_insights.returned) = 2
  /\ generated_insights.returned[1].insight_type = "operational_risk"
  /\ generated_insights.returned[1].severity = "critical"
  /\ generated_insights.returned[2].severity = "warning"

(* C26: the urgency of every spike Signal is at least as severe as the     *)
(* inherent urgency of the (topic, urgency) row it was derived from, under *)
(* the order low < medium < high < critical: spike detection only          *)
(* escalates urgency and never lowers it.                                  *)
C26_SpikeUrgencyNeverLowered ==
  spikes # NoCall =>
    LET severity == [low |-> 1, medium |-> 2, high |-> 3, critical |-> 4]
    IN  \A i \in 1..Len(spikes.returned) :
          severity[spikes.returned[i].urgency]
            >= severity[spikes.returned[i].metadata.inherent_urgency]

(* C27: for any non-empty set of rows with counts >= 1 and the default     *)
(* multiplier 2.0, detect_topic_spikes completes without a division or     *)
(* statistics error (including a single row and all-equal counts, i.e.     *)
(* standard deviation 0) and emits k spike signals with 2k < number of     *)
(* rows; in particular one row, two rows, or all-equal counts yield no     *)
(* spike.                                                                  *)
C27_SpikesAreAMinorityAndNoError ==
  (/\ spikes # NoCall
   /\ spikes.threshold_multiplier = 20
   /\ topic_data # <<>>
   /\ \A i \in 1..Len(topic_data) : topic_data[i].count >= 1) =>
    LET n == Len(topic_data)
        k == Len(spikes.returned)
        all_equal == \A i, j \in 1..n : topic_data[i].count = topic_data[j].count
    IN  /\ spikes.raised = "none"
        /\ 2 * k < n
        /\ (n <= 2 \/ all_equal) => k = 0

\* detection with the default multiplier returned twice, without a spike
\* and without an exception, on four rows of the same count
C27_Witness ==
  /\ spikes # NoCall
  /\ spikes.threshold_multiplier = 20
  /\ Len(topic_data) = 4
  /\ \A i \in 1..4 : topic_data[i].count = MaxCount
  /\ spikes.raised = "none"
  /\ spikes.returned = <<>>
  /\ prev_spikes # NoCall
  /\ prev_spikes.raised = "none"

(* C28: in a pipeline run (run_enhanced_analysis), the only signals that   *)
(* carry `location` metadata come from detect_geographic_hotspots, which   *)
(* emits at most one signal per (location, urgency) pair with urgency in   *)
(* {high, medium}; hence every location reaching the Early Warning Engine  *)
(* has at most 2 signals and at most 1 high/critical signal, and no        *)
(* geographic warning is ever emitted by a pipeline run.                   *)
C28_NoGeographicWarningInAPipelineRun ==
  \A r \in Runs :
    LET run == pipeline[r]
        finished == DOMAIN run.results
        located(signals) ==
          {i \in 1..Len(signals) : "location" \in DOMAIN signals[i].metadata}
    IN  /\ \A stage \in finished \cap {"detect_topic_spikes", "detect_trending_topics",
                                        "detect_sentiment_shifts"} :
             located(run.results[stage]) = {}
        /\ "detect_geographic_hotspots" \in finished =>
             LET hotspots == run.results["detect_geographic_hotspots"]
             IN  \A i, j \in 1..Len(hotspots) :
                   /\ hotspots[i].urgency \in {"high", "medium"}
                   /\ (/\ hotspots[i].metadata.location = hotspots[j].metadata.location
                       /\ hotspots[i].urgency = hotspots[j].urgency) => i = j
        /\ "rank_signals" \in finished =>
             LET passed == run.results["rank_signals"].priority_signals
                 at(location) ==
                   {i \in located(passed) : passed[i].metadata.location = location}
             IN  \A k \in located(passed) :
                   /\ Cardinality(at(passed[k].metadata.location)) <= 2
                   /\ Cardinality({i \in at(passed[k].metadata.location) :
                                     passed[i].urgency \in {"high", "critical"}}) <= 1
        /\ "generate_warnings" \in finished =>
             \A i \in 1..Len(run.results["generate_warnings"]) :
               run.results["generate_warnings"][i].type # "geographic"

\* an enhanced run over the busy store handed the Early Warning Engine the
\* two Colombo hotspot signals, one of them high, and got warnings, none of
\* them geographic
C28_Witness ==
  LET run == pipeline["first"]
  IN  /\ run.method = "run_enhanced_analysis"
      /\ "generate_warnings" \in DOMAIN run.results
      /\ run.results["generate_warnings"] # <<>>
      /\ Cardinality({i \in 1..Len(run.results["rank_signals"].priority_signals) :
                        /\ run.results["rank_signals"].priority_signals[i].signal_type
                             = "geographic_hotspot"
                        /\ run.results["rank_signals"].priority_signals[i].metadata.location
                             = "Colombo"}) = 2

(* C30: _store_signals either inserts and commits every signal of the run, *)
(* or, if any insert raises, rolls back so that none of the run's signals  *)
(* is persisted and the exception propagates; signals and insights are     *)
(* stored in two separate transactions, signals first, so a failure while  *)
(* storing insights leaves the run's signals committed and none of its     *)
(* insights persisted.                                                     *)
C30_StoringIsAllOrNothing ==
  \A r \in Runs :
    LET run == pipeline[r]
        of_run(table) == SelectSeq(table, LAMBDA row : row.run = r)
        signals == of_run(stored.signals)
        insights_stored == of_run(stored.insights)
        every_signal ==
          /\ "_store_signals" \in DOMAIN run.results
          /\ [i \in 1..Len(signals) |-> signals[i].signal] = all_signals(run)
        every_insight ==
          /\ "_store_insights" \in DOMAIN run.results
          /\ [i \in 1..Len(insights_stored) |-> insights_stored[i].signal]
               = run.results["generate_insights"]
    IN  /\ signals = <<>> \/ every_signal
        /\ insights_stored = <<>> \/ every_insight
        /\ "_store_signals" \in DOMAIN run.results => every_signal
        /\ "_store_insights" \in DOMAIN run.results => every_insight /\ every_signal
        /\ run.raised_in = "_store_signals" =>
             /\ run.status = "raised"
             /\ signals = <<>>
             /\ insights_stored = <<>>
        /\ run.raised_in = "_store_insights" =>
             /\ run.status = "raised"
             /\ every_signal
             /\ insights_stored = <<>>

\* one run failed while storing its seven insights and has its eight
\* signals in the table, the other failed while storing its signals and has
\* nothing in either table
C30_Witness ==
  /\ pipeline["first"].raised_in = "_store_insights"
  /\ Len(pipeline["first"].results["generate_insights"]) >= 2
  /\ Len(SelectSeq(stored.signals, LAMBDA row : row.run = "first")) = 8
  /\ pipeline["second"].raised_in = "_store_signals"
  /\ Len(stored.signals) = 8
  /\ stored.insights = <<>>

====
